---- MODULE Spec2Model ----
(***************************************************************************)
(* AIOStreams: the distributed lock / memoizer (DistributedLock.withLock,  *)
(* Redis and SQL backends), the debrid playback endpoint and               *)
(* BaseDebridAddon.getStreams, as state machines.                          *)
(*                                                                         *)
(* Time is a discrete clock `now`; one unit stands for one second.  Timers *)
(* (setTimeout) and poll wake-ups fire as soon as they are due: the clock  *)
(* does not advance past a due timer.                                      *)
(***************************************************************************)
EXTENDS Integers, Sequences, FiniteSets, TLC

(* ------------------------------ bounds -------------------------------- *)
NCallers == 2
MaxTime == 4

(* ----------------------- program constants ---------------------------- *)
\* setTimeout(() => DELETE ..., 2000): two seconds
ReleaseDelay == 2

Callers == 1..NCallers
\* LockOptions {ttl, timeout, retryInterval} the callers of a key pass: one
\* with timeout < ttl (as the defaults 30000 < 60000), one with ttl < timeout
LockOptions == {[ttl |-> 2, timeout |-> 1, retryInterval |-> 2],
                [ttl |-> 1, timeout |-> 2, retryInterval |-> 1]}

\* values a producer fn() may resolve to ("NaN" stands for a value JSON
\* cannot represent), and the messages of the errors it may throw
Values == {"x", "NaN"}
Messages == {"boom", ""}
FnOutcomes == [kind : {"value"}, v : Values]
                \cup [kind : {"error"}, message : Messages]

NoLock == [owner |-> 0]
NoOutcome == [kind |-> "none"]
NoTimer == -1

VARIABLES
  backend,      \* "redis" when Env.REDIS_URI is set, else "sql"
  opts,         \* the LockOptions of the calls
  now,          \* Date.now()
  pc,           \* position of each withLock call
  redisKey,     \* the Redis lock key: [owner, exp] or NoLock
  subs,         \* callers subscribed to the done channel
  inbox,        \* published messages not yet handed to the subscriber
  timer,        \* waiter's setTimeout deadline (redis) / next poll (sql)
  sqlRow,       \* the distributed_locks row: [owner, exp, result] or NoLock
  startTime,    \* when the caller became a waiter
  releaseAt,    \* deadline of the SQL release timer, or NoTimer
  produced,     \* what each caller's fn() resolved to / threw
  outcome,      \* what each withLock call returned / rejected with
  lease,        \* history: expiry time of the lock each winner acquired
  lateAttempt,  \* history: an acquisition was attempted after a winner's
                \* lock was no longer held
  overrun,      \* history: a lock expired before its holder released it
  mdStore,      \* metadataStore(): the metadataIds that have an entry
  pbStage,      \* playback handler: "idle", "resolving", "responded"
  pbReq,        \* the route parameters of the playback request
  pbMetadata,   \* the handler's `metadata`: was an entry read?
  pbResolve,    \* the calls made to debridInterface.resolve
  pbSent,       \* the responses sent for the request
  gsStage,      \* getStreams: "idle", "searching", "processing", "returned"
  gsId,         \* the id getStreams was called with
  gsSearch,     \* searchPromises: the two settled searches
  gsFails,      \* whether the service checks of processTorrents/NZBs failed
  gsReturn,     \* what getStreams returned or threw
  urlCount,     \* the 'url-count' cache: key -> count (0: no entry)
  rq,           \* the makeRequest calls in progress
  rqIssued,     \* how many makeRequest calls were made
  rqPassed,     \* per key: the calls that passed the guard in this window
  lkStage,      \* a listed stream's link: "idle", "listed", "routed"
  lkUser,       \* userData.cacheAndPlay when the stream was listed
  lkStream,     \* what _createStream put into the link
  lkUrl,        \* the playback url of the stream
  lkParams,     \* req.params of the request for the url, or NoRoute
  pureCall,     \* the function call in progress and its arguments, or NoCall
  pureRet,      \* what the call computed and returned
  msNow,        \* the metadata store's clock
  msStore,      \* metadataStore(): metadataId -> [value, expiresAt] or NoEntry
  msCall,       \* the getStreams call between its store write and its return
  msLinks,      \* the playback urls of the responses, with their times
  msRead,       \* the last playback request's read of the store
  srvEnv,       \* the environment of the server process: REDIS_URI, PRUNE_MAX_DAYS
  srvPc,        \* where start() is
  srvDone,      \* the initialisations start() awaited that settled, in order
  srvAnime,     \* initialiseAnimeDatabase(), which start() does not await
  srvExit,      \* the codes process.exit was called with
  prPc,         \* startAutoPrune: "off", "pruning", "waiting"
  prTimers,     \* the pending prune timers: their delays in ms
  prLast        \* how the last pruneUsers attempt went

lockVars == <<backend, opts, now, pc, redisKey, subs, inbox, timer, sqlRow,
              startTime, releaseAt, produced, outcome, lease,
              lateAttempt, overrun>>

playbackVars == <<mdStore, pbStage, pbReq, pbMetadata, pbResolve, pbSent>>

streamVars == <<gsStage, gsId, gsSearch, gsFails, gsReturn>>

debridVars == <<playbackVars, streamVars>>

httpVars == <<urlCount, rq, rqIssued, rqPassed>>

linkVars == <<lkStage, lkUser, lkStream, lkUrl, lkParams>>

\* the state of the parts that are neither the lock nor the debrid addon
pureVars == <<pureCall, pureRet>>

storeVars == <<msNow, msStore, msCall, msLinks, msRead>>

serverVars == <<srvEnv, srvPc, srvDone, srvAnime, srvExit, prPc, prTimers, prLast>>

restVars == <<httpVars, linkVars, pureVars, storeVars, serverVars>>

vars == <<lockVars, playbackVars, streamVars, restVars>>

(* ------------------------- JSON encoding ------------------------------ *)
\* JSON.stringify of one value: NaN is written as null
JsonValueAllNull(v) == "null"
JsonValue(v) == IF v = "NaN" THEN "null" ELSE v

\* JSON.stringify(storedResult), storedResult = {value} or {error}: the
\* text, as the pair <<member name, member text>>
JSONStringify(stored) ==
  IF "error" \in DOMAIN stored
    THEN <<"error", stored.error>>
    ELSE <<"value", JsonValue(stored.value)>>

\* JSON.parse(message): the text read back as a StoredResult
JSONParse(text) ==
  IF text[1] = "error" THEN [error |-> text[2]] ELSE [value |-> text[2]]

\* e.message || 'Error'
ErrorText(e) == IF e.message = "" THEN "Error" ELSE e.message

\* { value: result } / { error: e.message || 'Error' }
StoredResult(out) ==
  IF out.kind = "value" THEN [value |-> out.v]
                        ELSE [error |-> ErrorText(out)]

RedisTimeoutMsg == "Timed out waiting for redis lock"
SqlTimeoutMsg == "Timed out waiting for SQL lock"

\* storedResult.value, undefined when the member is absent
ValueOf(stored) ==
  IF "value" \in DOMAIN stored THEN stored.value ELSE "undefined"

\* what a waiter settles with after reading a StoredResult:
\* if (storedResult.error) reject(new Error(storedResult.error))
\* else resolve({result: storedResult.value, cached: true})
WaiterResultUncached(stored) ==
  IF "error" \in DOMAIN stored /\ stored.error # ""
    THEN [kind |-> "error", message |-> stored.error]
    ELSE [kind |-> "value", result |-> ValueOf(stored), cached |-> FALSE]
WaiterResultNoMessage(stored) ==
  IF "error" \in DOMAIN stored /\ stored.error # ""
    THEN [kind |-> "error", message |-> "Error"]
    ELSE [kind |-> "value", result |-> ValueOf(stored), cached |-> TRUE]
WaiterResult(stored) ==
  IF "error" \in DOMAIN stored /\ stored.error # ""
    THEN [kind |-> "error", message |-> stored.error]
    ELSE [kind |-> "value", result |-> ValueOf(stored), cached |-> TRUE]

\* what the winner settles with
WinnerResult(out) ==
  IF out.kind = "value"
    THEN [kind |-> "value", result |-> out.v, cached |-> FALSE]
    ELSE [kind |-> "error", message |-> out.message]

(* --------------------------- lock state ------------------------------- *)
\* redis GET: a key set with PX is gone once its ttl has elapsed
RedisGet == IF redisKey # NoLock /\ now < redisKey.exp
              THEN redisKey.owner ELSE 0

Winners == {c \in Callers : lease[c] # NoTimer}
Running == {c \in Callers : pc[c] = "running"}
HolderPcs == {"running", "relGet", "relDel"}

\* a lock record of some winner is currently held (present and live)
LockHeld ==
  IF backend = "redis" THEN RedisGet # 0
  ELSE sqlRow # NoLock /\ ~(sqlRow.exp < now)

Due(c) ==
  \/ pc[c] \in {"recheck", "waiting", "polling"} /\ timer[c] # NoTimer
       /\ timer[c] <= now
  \/ releaseAt[c] # NoTimer /\ releaseAt[c] <= now

LockInit ==
  /\ backend \in {"redis", "sql"}
  /\ opts \in LockOptions
  /\ now = 0
  /\ pc = [c \in Callers |-> "idle"]
  /\ redisKey = NoLock
  /\ subs = {}
  /\ inbox = [c \in Callers |-> <<>>]
  /\ timer = [c \in Callers |-> NoTimer]
  /\ sqlRow = NoLock
  /\ startTime = [c \in Callers |-> NoTimer]
  /\ releaseAt = [c \in Callers |-> NoTimer]
  /\ produced = [c \in Callers |-> NoOutcome]
  /\ outcome = [c \in Callers |-> NoOutcome]
  /\ lease = [c \in Callers |-> NoTimer]
  /\ lateAttempt = FALSE
  /\ overrun = FALSE

\* the lock with no call made, for the specifications of the other parts
LockUnused ==
  /\ LockInit
  /\ backend = "sql"
  /\ opts = [ttl |-> 2, timeout |-> 1, retryInterval |-> 2]

\* the calls are numbered in the order in which they are made
InCallOrder(c) == \A d \in Callers : d < c => pc[d] # "idle"

(* ----------------------- history bookkeeping -------------------------- *)
NoteAttempt == lateAttempt' = (lateAttempt \/ (Winners # {} /\ ~LockHeld))

NoteOverrun ==
  overrun' = (overrun \/ \E c \in Callers :
                 /\ pc'[c] \in HolderPcs
                 /\ IF backend = "redis" THEN lease'[c] <= now'
                                         ELSE lease'[c] < now')

(* --------------------------- Redis backend ---------------------------- *)
\* redis.set(redisKey, owner, {PX: ttl, NX: true}) === 'OK'
SetWithoutNX == TRUE
SetNX == RedisGet = 0

\* acquireLock() and the branch taken on its result
RedisAcquire(c) ==
  /\ backend = "redis" /\ pc[c] = "idle" /\ InCallOrder(c)
  /\ NoteAttempt
  /\ IF SetNX
       THEN /\ redisKey' = [owner |-> c, exp |-> now + opts.ttl]
            /\ lease' = [lease EXCEPT ![c] = now + opts.ttl]
            /\ pc' = [pc EXCEPT ![c] = "running"]
       ELSE /\ pc' = [pc EXCEPT ![c] = "subscribing"]
            /\ UNCHANGED <<redisKey, lease>>
  /\ UNCHANGED <<debridVars, restVars, backend, opts, now, subs, inbox, timer, sqlRow, startTime,
                 releaseAt, produced, outcome>>
  /\ NoteOverrun

\* redis.publish(doneChannel, message): every current subscriber gets it
Publish(message) ==
  [w \in Callers |-> IF w \in subs THEN Append(inbox[w], message)
                                    ELSE inbox[w]]

\* fn() settles and the winner publishes {value} or {error}
RedisPublish(c, out) ==
  /\ backend = "redis" /\ pc[c] = "running"
  /\ produced' = [produced EXCEPT ![c] = out]
  /\ inbox' = Publish(JSONStringify(StoredResult(out)))
  /\ pc' = [pc EXCEPT ![c] = "relGet"]
  /\ UNCHANGED <<debridVars, restVars, backend, opts, now, redisKey, subs, timer, sqlRow,
                 startTime, releaseAt, outcome, lease, lateAttempt>>
  /\ NoteOverrun

\* finally: (await redis.get(redisKey)) === owner
RedisReleaseGet(c) ==
  /\ backend = "redis" /\ pc[c] = "relGet"
  /\ IF RedisGet = c
       THEN /\ pc' = [pc EXCEPT ![c] = "relDel"]
            /\ UNCHANGED <<outcome, lease>>
       ELSE /\ pc' = [pc EXCEPT ![c] = "done"]
            /\ outcome' = [outcome EXCEPT ![c] = WinnerResult(produced[c])]
            /\ lease' = [lease EXCEPT ![c] = 0]
  /\ UNCHANGED <<debridVars, restVars, backend, opts, now, redisKey, subs, inbox, timer, sqlRow,
                 startTime, releaseAt, produced, lateAttempt>>
  /\ NoteOverrun

\* finally: await redis.del(redisKey); then return / rethrow
RedisReleaseDel(c) ==
  /\ backend = "redis" /\ pc[c] = "relDel"
  /\ redisKey' = NoLock
  /\ pc' = [pc EXCEPT ![c] = "done"]
  /\ outcome' = [outcome EXCEPT ![c] = WinnerResult(produced[c])]
  /\ lease' = [lease EXCEPT ![c] = 0]
  /\ UNCHANGED <<debridVars, restVars, backend, opts, now, subs, inbox, timer, sqlRow, startTime,
                 releaseAt, produced, lateAttempt>>
  /\ NoteOverrun

\* subRedis.subscribe(doneChannel, subscriber) resolves: the timer is set
\* and the lock key is read again
RedisSubscribed(c) ==
  /\ backend = "redis" /\ pc[c] = "subscribing"
  /\ subs' = subs \cup {c}
  /\ timer' = [timer EXCEPT ![c] = now + opts.timeout]
  /\ pc' = [pc EXCEPT ![c] = "recheck"]
  /\ UNCHANGED <<debridVars, restVars, backend, opts, now, redisKey, inbox, sqlRow, startTime,
                 releaseAt, produced, outcome, lease, lateAttempt, overrun>>

\* cleanup(): clearTimeout and unsubscribe; the promise settles
Settle(c, result) ==
  /\ subs' = subs \ {c}
  /\ timer' = [timer EXCEPT ![c] = NoTimer]
  /\ inbox' = [inbox EXCEPT ![c] = <<>>]
  /\ outcome' = [outcome EXCEPT ![c] = result]
  /\ pc' = [pc EXCEPT ![c] = "done"]

\* redis.get(redisKey).then(lockValue => ...): null means onTimeout()
RedisRecheck(c) ==
  /\ backend = "redis" /\ pc[c] = "recheck"
  /\ IF RedisGet = 0
       THEN Settle(c, [kind |-> "error", message |-> RedisTimeoutMsg])
       ELSE /\ pc' = [pc EXCEPT ![c] = "waiting"]
            /\ UNCHANGED <<subs, timer, inbox, outcome>>
  /\ UNCHANGED <<debridVars, restVars, backend, opts, now, redisKey, sqlRow, startTime,
                 releaseAt, produced, lease, lateAttempt, overrun>>

\* subscriber(message)
RedisDeliver(c) ==
  /\ backend = "redis" /\ pc[c] \in {"recheck", "waiting"}
  /\ inbox[c] # <<>>
  /\ Settle(c, WaiterResult(JSONParse(Head(inbox[c]))))
  /\ UNCHANGED <<debridVars, restVars, backend, opts, now, redisKey, sqlRow, startTime,
                 releaseAt, produced, lease, lateAttempt, overrun>>

\* onTimeout(), run by setTimeout(onTimeout, timeout)
RedisOnTimeout(c) ==
  /\ backend = "redis" /\ pc[c] \in {"recheck", "waiting"}
  /\ timer[c] <= now
  /\ Settle(c, [kind |-> "error", message |-> RedisTimeoutMsg])
  /\ UNCHANGED <<debridVars, restVars, backend, opts, now, redisKey, sqlRow, startTime,
                 releaseAt, produced, lease, lateAttempt, overrun>>

(* ---------------------------- SQL backend ----------------------------- *)
\* DELETE FROM distributed_locks WHERE expires_at < Date.now()
KeepExpired(row) == row
DeleteExpired(row) ==
  IF row # NoLock /\ row.exp < now THEN NoLock ELSE row

\* INSERT OR IGNORE / INSERT ... ON CONFLICT (key) DO NOTHING
InsertOrReplace(row, c) ==
  [owner |-> c, exp |-> now + opts.ttl, result |-> <<>>]
InsertIfAbsent(row, c) ==
  IF row = NoLock
    THEN [owner |-> c, exp |-> now + opts.ttl, result |-> <<>>]
    ELSE row

\* const expiresAt = Date.now() + ttl; tryAcquireLock(): one transaction of
\* the TransactionQueue, run when the call is made; a caller that does not
\* acquire enters the poll loop (startTime = Date.now())
SqlTryAcquire(c) ==
  /\ backend = "sql" /\ pc[c] = "idle" /\ InCallOrder(c)
  /\ NoteAttempt
  /\ LET swept == DeleteExpired(sqlRow)
         inserted == InsertIfAbsent(swept, c)
         acquired == inserted # swept     \* rows affected > 0
     IN /\ sqlRow' = inserted
        /\ IF acquired
             THEN /\ pc' = [pc EXCEPT ![c] = "running"]
                  /\ lease' = [lease EXCEPT ![c] = now + opts.ttl]
                  /\ UNCHANGED <<startTime, timer>>
             ELSE /\ pc' = [pc EXCEPT ![c] = "polling"]
                  /\ startTime' = [startTime EXCEPT ![c] = now]
                  /\ timer' = [timer EXCEPT ![c] = now]
                  /\ UNCHANGED lease
  /\ UNCHANGED <<debridVars, restVars, backend, opts, now, redisKey, subs, inbox, releaseAt,
                 produced, outcome>>
  /\ NoteOverrun

\* UPDATE distributed_locks SET result = ? WHERE key = ? AND owner = ?
UpdateResult(row, c, text) ==
  IF row # NoLock /\ row.owner = c THEN [row EXCEPT !.result = text] ELSE row

\* fn() settles, the result or error is written to the row, the release
\* timer is set (finally) and the call returns or rethrows
SqlFinish(c, out) ==
  /\ backend = "sql" /\ pc[c] = "running"
  /\ produced' = [produced EXCEPT ![c] = out]
  /\ sqlRow' = UpdateResult(sqlRow, c, JSONStringify(StoredResult(out)))
  /\ releaseAt' = [releaseAt EXCEPT ![c] = now + ReleaseDelay]
  /\ outcome' = [outcome EXCEPT ![c] = WinnerResult(out)]
  /\ pc' = [pc EXCEPT ![c] = "done"]
  /\ lease' = [lease EXCEPT ![c] = 0]
  /\ UNCHANGED <<debridVars, restVars, backend, opts, now, redisKey, subs, inbox, timer, startTime,
                 lateAttempt>>
  /\ NoteOverrun

\* DELETE FROM distributed_locks WHERE key = ? AND owner = ?
DeleteOwned(row, c) ==
  IF row # NoLock /\ row.owner = c THEN NoLock ELSE row

\* the release timer fires
SqlRelease(c) ==
  /\ backend = "sql" /\ releaseAt[c] # NoTimer /\ releaseAt[c] <= now
  /\ sqlRow' = DeleteOwned(sqlRow, c)
  /\ releaseAt' = [releaseAt EXCEPT ![c] = NoTimer]
  /\ UNCHANGED <<debridVars, restVars, backend, opts, now, pc, redisKey, subs, inbox, timer,
                 startTime, produced, outcome, lease, lateAttempt,
                 overrun>>

\* the poll loop ends: return {result, cached: true} or throw
SqlSettle(c, result) ==
  /\ outcome' = [outcome EXCEPT ![c] = result]
  /\ pc' = [pc EXCEPT ![c] = "done"]
  /\ timer' = [timer EXCEPT ![c] = NoTimer]
  /\ startTime' = [startTime EXCEPT ![c] = NoTimer]

\* while (Date.now() - startTime < timeout)
LoopContinuesAtTimeout(c) == now - startTime[c] <= opts.timeout
LoopContinues(c) == now - startTime[c] < opts.timeout

\* one turn of the poll loop: the query, then the sleep of retryInterval
SqlPoll(c) ==
  /\ backend = "sql" /\ pc[c] = "polling" /\ timer[c] <= now
  /\ IF LoopContinues(c)
       THEN IF sqlRow # NoLock /\ sqlRow.result # <<>>
              THEN SqlSettle(c, WaiterResult(JSONParse(sqlRow.result)))
              ELSE /\ timer' = [timer EXCEPT ![c] = now + opts.retryInterval]
                   /\ UNCHANGED <<outcome, pc, startTime>>
       ELSE SqlSettle(c, [kind |-> "error", message |-> SqlTimeoutMsg])
  /\ UNCHANGED <<debridVars, restVars, backend, opts, now, redisKey, subs, inbox, sqlRow,
                 releaseAt, produced, lease, lateAttempt, overrun>>

(* --------------------------- environment ------------------------------ *)
\* the process of a caller dies while its producer runs: nothing is
\* published, stored or released
Crash(c) ==
  /\ pc[c] = "running"
  /\ pc' = [pc EXCEPT ![c] = "crashed"]
  /\ UNCHANGED <<debridVars, restVars, backend, opts, now, redisKey, subs, inbox, timer, sqlRow,
                 startTime, releaseAt, produced, outcome, lease,
                 lateAttempt, overrun>>

\* time passes, unless a timer is due; a Redis key whose PX ttl has elapsed
\* is removed
Tick ==
  /\ now < MaxTime
  /\ \A c \in Callers : ~Due(c)
  /\ now' = now + 1
  /\ redisKey' = IF redisKey # NoLock /\ redisKey.exp <= now + 1
                   THEN NoLock ELSE redisKey
  /\ UNCHANGED <<debridVars, restVars, backend, opts, pc, subs, inbox, timer, sqlRow, startTime,
                 releaseAt, produced, outcome, lease, lateAttempt>>
  /\ NoteOverrun


(* ------------------------ playback endpoint --------------------------- *)
MetadataIds == {"m1", "m2"}
NoReq == [metadataId |-> "none"]

\* the :fileInfo route parameter: empty, base64 of text that is not JSON,
\* base64 of JSON that is no FileInfo, or base64 of a FileInfo
FileInfoParams ==
  [enc : {"empty", "notjson", "badshape"}]
    \cup [enc : {"ok"}, type : {"torrent", "usenet"},
          cacheAndPlay : {"true", "false", "absent"}]

\* the :encryptedStoreAuth route parameter: not decryptable, or the
\* ciphertext of text that is not JSON, of JSON that is no ServiceAuth, or of
\* a ServiceAuth
StoreAuthParams == {"undecryptable", "notjson", "badshape", "ok"}

PlaybackRequests ==
  [encryptedStoreAuth : StoreAuthParams, fileInfo : FileInfoParams,
   metadataId : MetadataIds \cup {""}, filename : {"", "f.mkv"}]

\* DebridError codes, "OTHER" standing for any code the switch does not list
DebridCodes ==
  {"UNAVAILABLE_FOR_LEGAL_REASONS", "STORE_LIMIT_EXCEEDED", "PAYMENT_REQUIRED",
   "FORBIDDEN", "UNAUTHORIZED", "UNPROCESSABLE_ENTITY",
   "UNSUPPORTED_MEDIA_TYPE", "STORE_MAGNET_INVALID", "NO_MATCHING_FILE",
   "OTHER"}

\* what debridInterface.resolve may do
ResolveOutcomes ==
  {[kind |-> "url"], [kind |-> "none"], [kind |-> "error"]}
    \cup [kind : {"debridError"}, code : DebridCodes]

StreamUrl == "https://debrid.example/file"

APIError(code) == [kind |-> "apiError", code |-> code]

\* Express res.redirect(url): called with the url alone it sends status 302,
\* whatever res.status(...) set before it
Redirect(statusSet, url) ==
  [kind |-> "redirect", status |-> 302, location |-> url]

\* the switch over error.code choosing the static file
StaticFileFor(out) ==
  IF out.kind # "debridError" THEN "INTERNAL_SERVER_ERROR"
  ELSE CASE out.code = "UNAVAILABLE_FOR_LEGAL_REASONS"
              -> "UNAVAILABLE_FOR_LEGAL_REASONS"
         [] out.code = "STORE_LIMIT_EXCEEDED" -> "STORE_LIMIT_EXCEEDED"
         [] out.code = "PAYMENT_REQUIRED" -> "PAYMENT_REQUIRED"
         [] out.code = "FORBIDDEN" -> "FORBIDDEN"
         [] out.code = "UNAUTHORIZED" -> "UNAUTHORIZED"
         [] out.code \in {"UNPROCESSABLE_ENTITY", "UNSUPPORTED_MEDIA_TYPE",
                          "STORE_MAGNET_INVALID"} -> "DOWNLOAD_FAILED"
         [] out.code = "NO_MATCHING_FILE" -> "NO_MATCHING_FILE"
         [] OTHER -> "INTERNAL_SERVER_ERROR"

StaticUrl(file) == <<"/static/", file>>

\* the handler up to the call of resolve: the error it passes to next(), or
\* "none" when every check passes.  `found` is what metadataStore().get
\* returned.
ValidationError(r, found) ==
  IF r.fileInfo.enc = "empty" \/ r.metadataId = "" \/ r.filename = ""
    THEN "BAD_REQUEST"
  ELSE IF r.fileInfo.enc = "notjson"          \* JSON.parse: SyntaxError
    THEN "INTERNAL_SERVER_ERROR"
  ELSE IF r.fileInfo.enc = "badshape"         \* FileInfoSchema: ZodError
    THEN "BAD_REQUEST"
  ELSE IF r.encryptedStoreAuth = "undecryptable"
    THEN "BAD_REQUEST"
  ELSE IF r.encryptedStoreAuth = "notjson"    \* JSON.parse: SyntaxError
    THEN "INTERNAL_SERVER_ERROR"
  ELSE IF r.encryptedStoreAuth = "badshape"   \* ServiceAuthSchema: ZodError
    THEN "BAD_REQUEST"
  ELSE IF ~found
    THEN "BAD_REQUEST"
  ELSE "none"

\* fileInfo.cacheAndPlay ?? false
CacheAndPlayArg(fileInfo) == fileInfo.cacheAndPlay = "true"

PlaybackInit ==
  /\ mdStore \in SUBSET MetadataIds
  /\ pbStage = "idle"
  /\ pbReq = NoReq
  /\ pbMetadata = FALSE
  /\ pbResolve = <<>>
  /\ pbSent = <<>>

PlaybackUnused ==
  /\ PlaybackInit
  /\ mdStore = {}

\* GET /playback/:encryptedStoreAuth/:fileInfo/:metadataId/:filename, up to
\* the call of resolve or the error passed to next()
PlaybackRequest(r) ==
  /\ pbStage = "idle"
  /\ pbReq' = r
  /\ LET found == r.metadataId \in mdStore
         err == ValidationError(r, found)
     IN /\ pbMetadata' = (found /\ err = "none")
        /\ IF err = "none"
             THEN /\ pbStage' = "resolving"
                  /\ pbResolve' = <<[type |-> r.fileInfo.type,
                                     filename |-> r.filename,
                                     cacheAndPlay |->
                                       CacheAndPlayArg(r.fileInfo)]>>
                  /\ pbSent' = <<>>
             ELSE /\ pbStage' = "responded"
                  /\ pbResolve' = <<>>
                  /\ pbSent' = <<APIError(err)>>
  /\ UNCHANGED <<lockVars, restVars, streamVars, mdStore>>

\* resolve settles and the handler answers
PlaybackAnswer(out) ==
  /\ pbStage = "resolving"
  /\ pbStage' = "responded"
  /\ pbSent' = Append(pbSent,
       IF out.kind \in {"error", "debridError"}
         THEN Redirect(302, StaticUrl(StaticFileFor(out)))
       ELSE IF out.kind = "none"
         THEN Redirect(302, StaticUrl("DOWNLOADING"))
       ELSE Redirect(307, StreamUrl))
  /\ pbResolve' = [i \in DOMAIN pbResolve |->
                     [type |-> pbResolve[i].type,
                      filename |-> pbResolve[i].filename,
                      cacheAndPlay |-> pbResolve[i].cacheAndPlay,
                      outcome |-> out]]
  /\ UNCHANGED <<lockVars, restVars, streamVars, mdStore, pbReq, pbMetadata>>

\* the request is over; the next one may arrive
PlaybackDone ==
  /\ pbStage = "responded"
  /\ pbStage' = "idle"
  /\ pbReq' = NoReq
  /\ pbMetadata' = FALSE
  /\ pbResolve' = <<>>
  /\ pbSent' = <<>>
  /\ UNCHANGED <<lockVars, restVars, streamVars, mdStore>>

\* an entry is written to the metadata store / an entry's ttl runs out
StoreSet(m) ==
  /\ m \notin mdStore
  /\ mdStore' = mdStore \cup {m}
  /\ UNCHANGED <<lockVars, restVars, streamVars, pbStage, pbReq, pbMetadata, pbResolve,
                 pbSent>>

StoreExpire(m) ==
  /\ m \in mdStore
  /\ mdStore' = mdStore \ {m}
  /\ UNCHANGED <<lockVars, restVars, streamVars, pbStage, pbReq, pbMetadata, pbResolve,
                 pbSent>>

(* ------------------- BaseDebridAddon.getStreams ----------------------- *)
MaxResults == 2

\* ids getStreams is called with; "unknown:1" stands for an id IdParser
\* rejects or whose type is not supported
SupportedIds == {"tt1", "tt2"}
StreamIds == SupportedIds \cup {"unknown:1"}

\* getSimpleTextHash(JSON.stringify(debridTitleMetadata)): the metadata, and
\* so its hash, is a function of the id
MetadataIdOf(id) == IF id = "tt1" THEN "m1" ELSE "m2"

\* an UnprocessedTorrent: hash and downloadUrl are both optional; a search
\* result carries its hash, or the url of its .torrent file, or neither
Torrents ==
  {t \in [hash : {"", "h1"}, downloadUrl : {"", "u1", "u2"}] :
     t.hash = "" \/ t.downloadUrl = ""}
NZBs == [nzb : {"n1", "n2"}]

SeqsUpTo(S, n) == UNION {[1..k -> S] : k \in 0..n}

\* one entry of Promise.allSettled's result
Fulfilled(value) == [status |-> "fulfilled", value |-> value]
Rejected(message) == [status |-> "rejected", reason |-> [message |-> message]]

TorrentSearches ==
  {Fulfilled(v) : v \in SeqsUpTo(Torrents, MaxResults)}
    \cup {Rejected(m) : m \in Messages}
NzbSearches ==
  {Fulfilled(v) : v \in SeqsUpTo(NZBs, MaxResults)}
    \cup {Rejected(m) : m \in Messages}

NoSearch == <<>>
NoReturn == [kind |-> "none"]

\* _createErrorStream({title, description})
ErrorStream(description) ==
  [name |-> "[X] addon", type |-> "", ref |-> "", metadataId |-> "",
   description |-> description]

\* _createStream(result, encryptedStoreAuths, metadataId)
CreateStream(result, metadataId) ==
  [name |-> "[svc] addon", type |-> result.type, ref |-> result.ref,
   metadataId |-> metadataId, description |-> result.ref]

\* searchPromises[i].status === 'fulfilled' ? searchPromises[i].value : []
SettledValue(p) == IF p.status = "fulfilled" THEN p.value ELSE <<>>

\* searchPromises[i].status === 'rejected'
SearchFailedNever(p) == FALSE
SearchFailed(p) == p.status = "rejected"

\* the two pushes onto searchErrors
SearchErrors(search) ==
  (IF SearchFailed(search[1])
     THEN <<ErrorStream(search[1].reason.message)>> ELSE <<>>)
  \o (IF SearchFailed(search[2])
        THEN <<ErrorStream(search[2].reason.message)>> ELSE <<>>)

HasHash(t) == t.hash # ""
NeedsDownload(t) == t.hash = "" /\ t.downloadUrl # ""

\* TorrentClient.getMetadata(torrent): "u1" yields the torrent's metadata,
\* "u2" yields none (or throws)
GetMetadata(t) == IF t.downloadUrl = "u1" THEN "h2" ELSE ""

\* one metadataPromise: the enriched torrent, or null (here: hash "")
Enrich(t) ==
  IF GetMetadata(t) = "" THEN t
  ELSE [hash |-> GetMetadata(t), downloadUrl |-> t.downloadUrl]

\* torrentResults after the filters and the metadata fetch
EnrichedTorrents(torrentResults) ==
  LET torrentsToDownload == SelectSeq(torrentResults, NeedsDownload)
      metadataPromises ==
        [i \in DOMAIN torrentsToDownload |-> Enrich(torrentsToDownload[i])]
  IN SelectSeq(torrentResults, HasHash) \o SelectSeq(metadataPromises, HasHash)

\* processTorrents / processNZBs: every item checked against the user's
\* services; a service that fails yields an entry of `errors`
TorrentResult(t) == [type |-> "torrent", ref |-> t.hash]
NzbResult(n) == [type |-> "usenet", ref |-> n.nzb]
ProcessTorrents(torrents, serviceFails) ==
  [results |-> IF serviceFails THEN <<>>
               ELSE [i \in DOMAIN torrents |-> TorrentResult(torrents[i])],
   errors |-> IF serviceFails THEN <<"torrent check failed">> ELSE <<>>]
ProcessNZBs(nzbs, serviceFails) ==
  [results |-> IF serviceFails THEN <<>>
               ELSE [i \in DOMAIN nzbs |-> NzbResult(nzbs[i])],
   errors |-> IF serviceFails THEN <<"nzb check failed">> ELSE <<>>]

\* resultStreams
ResultStreams(search, fails, metadataId) ==
  LET processedTorrents ==
        ProcessTorrents(EnrichedTorrents(SettledValue(search[1])), fails[1])
      processedNzbs == ProcessNZBs(SettledValue(search[2]), fails[2])
      results == processedTorrents.results \o processedNzbs.results
  IN [i \in DOMAIN results |-> CreateStream(results[i], metadataId)]

\* processingErrors
ProcessingErrors(search, fails) ==
  LET processedTorrents ==
        ProcessTorrents(EnrichedTorrents(SettledValue(search[1])), fails[1])
      processedNzbs == ProcessNZBs(SettledValue(search[2]), fails[2])
      errors == processedTorrents.errors \o processedNzbs.errors
  IN [i \in DOMAIN errors |-> ErrorStream(errors[i])]

StreamsInit ==
  /\ gsStage = "idle"
  /\ gsId = ""
  /\ gsSearch = NoSearch
  /\ gsFails = <<FALSE, FALSE>>
  /\ gsReturn = NoReturn

\* getStreams(type, id) up to the two searches: an unsupported id throws, a
\* failed metadata lookup returns one error stream
GetStreamsCall(id, metadataOk) ==
  /\ gsStage = "idle"
  /\ gsId' = id
  /\ gsSearch' = NoSearch
  /\ gsFails' = <<FALSE, FALSE>>
  /\ IF id \notin SupportedIds
       THEN /\ gsStage' = "returned"
            /\ gsReturn' = [kind |-> "throw", streams |-> <<>>]
     ELSE IF ~metadataOk
       THEN /\ gsStage' = "returned"
            /\ gsReturn' = [kind |-> "return",
                            streams |-> <<ErrorStream("Failed to get metadata")>>]
     ELSE /\ gsStage' = "searching"
          /\ gsReturn' = NoReturn
  /\ UNCHANGED <<lockVars, restVars, playbackVars>>

\* await Promise.allSettled([_searchTorrents, _searchNzbs])
SearchesSettle(torrents, nzbs) ==
  /\ gsStage = "searching"
  /\ gsStage' = "processing"
  /\ gsSearch' = <<torrents, nzbs>>
  /\ UNCHANGED <<lockVars, restVars, playbackVars, gsId, gsFails, gsReturn>>

\* the rest of getStreams: processing, the metadata store entry, the streams
GetStreamsReturn(fails) ==
  /\ gsStage = "processing"
  /\ gsStage' = "returned"
  /\ gsFails' = fails
  /\ mdStore' = mdStore \cup {MetadataIdOf(gsId)}
  /\ gsReturn' =
       [kind |-> "return",
        streams |-> ResultStreams(gsSearch, fails, MetadataIdOf(gsId))
                      \o SearchErrors(gsSearch)
                      \o ProcessingErrors(gsSearch, fails)]
  /\ UNCHANGED <<lockVars, restVars, pbStage, pbReq, pbMetadata, pbResolve, pbSent, gsId,
                 gsSearch>>

\* the caller has the result; the addon may be asked again
GetStreamsDone ==
  /\ gsStage = "returned"
  /\ gsStage' = "idle"
  /\ gsId' = ""
  /\ gsSearch' = NoSearch
  /\ gsFails' = <<FALSE, FALSE>>
  /\ gsReturn' = NoReturn
  /\ UNCHANGED <<lockVars, restVars, playbackVars>>

(* ------------------------ playback links ------------------------------ *)
\* Texts are sequences of character codes (ASCII).
MaxText == 3

\* the texts a tracker url or an NZB url is made of: letters and '?'
UrlTexts == UNION {[1..k -> {97, 63}] : k \in 1..MaxText}

\* FileInfo as _createStream builds it; `text` is sources[0] of a torrent
\* and the nzb url of a usenet download; cacheAndPlay is "absent" when the
\* expression that computes it yields undefined
FileInfos ==
  [type : {"torrent", "usenet"}, text : UrlTexts,
   cacheAndPlay : {"true", "false", "absent"}]

\* JSON.stringify(fileInfo): members in the order _createStream writes them,
\* undefined members left out
FileInfoJson(f) ==
  LET \* {"type":"torrent","hash":"h","sources":["
      torrentHead ==
        <<123, 34, 116, 121, 112, 101, 34, 58, 34, 116, 111, 114, 114, 101,
          110, 116, 34, 44, 34, 104, 97, 115, 104, 34, 58, 34, 104, 34, 44,
          34, 115, 111, 117, 114, 99, 101, 115, 34, 58, 91, 34>>
      \* "],"index":0
      torrentTail == <<34, 93, 44, 34, 105, 110, 100, 101, 120, 34, 58, 48>>
      \* {"type":"usenet","nzb":"
      usenetHead ==
        <<123, 34, 116, 121, 112, 101, 34, 58, 34, 117, 115, 101, 110, 101,
          116, 34, 44, 34, 110, 122, 98, 34, 58, 34>>
      \* ","hash":"h","index":0
      usenetTail ==
        <<34, 44, 34, 104, 97, 115, 104, 34, 58, 34, 104, 34, 44, 34, 105,
          110, 100, 101, 120, 34, 58, 48>>
      \* ,"cacheAndPlay":true   ,"cacheAndPlay":false
      capTrue ==
        <<44, 34, 99, 97, 99, 104, 101, 65, 110, 100, 80, 108, 97, 121, 34,
          58, 116, 114, 117, 101>>
      capFalse ==
        <<44, 34, 99, 97, 99, 104, 101, 65, 110, 100, 80, 108, 97, 121, 34,
          58, 102, 97, 108, 115, 101>>
  IN (IF f.type = "torrent"
        THEN torrentHead \o f.text \o torrentTail
        ELSE usenetHead \o f.text \o usenetTail)
     \o (CASE f.cacheAndPlay = "true" -> capTrue
           [] f.cacheAndPlay = "false" -> capFalse
           [] OTHER -> <<>>)
     \o <<125>>

\* the i-th character of the base64 alphabet: A-Z a-z 0-9 + /
Base64Char(i) ==
  IF i < 26 THEN 65 + i
  ELSE IF i < 52 THEN 97 + (i - 26)
  ELSE IF i < 62 THEN 48 + (i - 52)
  ELSE IF i = 62 THEN 43 ELSE 47

\* Buffer.from(text).toString('base64')
RECURSIVE Base64Encode(_)
Base64Encode(bytes) ==
  IF bytes = <<>> THEN <<>>
  ELSE LET n == Len(bytes)
           b1 == bytes[1]
           b2 == IF n >= 2 THEN bytes[2] ELSE 0
           b3 == IF n >= 3 THEN bytes[3] ELSE 0
       IN <<Base64Char(b1 \div 4),
            Base64Char((b1 % 4) * 16 + b2 \div 16),
            IF n >= 2 THEN Base64Char((b2 % 16) * 4 + b3 \div 64) ELSE 61,
            IF n >= 3 THEN Base64Char(b3 % 64) ELSE 61>>
          \o (IF n > 3 THEN Base64Encode(SubSeq(bytes, 4, n)) ELSE <<>>)

\* the place of a character in the base64 alphabet ('-' and '_' are read
\* as '+' and '/'); -1 for any other character
Base64Index(c) ==
  IF 65 <= c /\ c <= 90 THEN c - 65
  ELSE IF 97 <= c /\ c <= 122 THEN c - 97 + 26
  ELSE IF 48 <= c /\ c <= 57 THEN c - 48 + 52
  ELSE IF c = 43 \/ c = 45 THEN 62
  ELSE IF c = 47 \/ c = 95 THEN 63
  ELSE -1

IsBase64Char(c) == Base64Index(c) >= 0

\* the bytes of a run of base64 characters
RECURSIVE Base64Bytes(_)
Base64Bytes(chars) ==
  IF Len(chars) < 2 THEN <<>>
  ELSE LET n == Len(chars)
           s1 == Base64Index(chars[1])
           s2 == Base64Index(chars[2])
           s3 == IF n >= 3 THEN Base64Index(chars[3]) ELSE 0
           s4 == IF n >= 4 THEN Base64Index(chars[4]) ELSE 0
       IN <<s1 * 4 + s2 \div 16>>
          \o (IF n >= 3 THEN <<(s2 % 16) * 16 + s3 \div 4>> ELSE <<>>)
          \o (IF n >= 4 THEN <<(s3 % 4) * 64 + s4>> ELSE <<>>)
          \o (IF n > 4 THEN Base64Bytes(SubSeq(chars, 5, n)) ELSE <<>>)

\* Buffer.from(text, 'base64'): characters outside the alphabet (the
\* padding among them) are skipped
Base64Decode(text) == Base64Bytes(SelectSeq(text, IsBase64Char))

\* encodeURIComponent / decodeURIComponent, on texts of letters, '.', '/'
\* and '%': '/' is written %2F and '%' is written %25
RECURSIVE EncodeURIComponent(_)
EncodeURIComponent(text) ==
  IF text = <<>> THEN <<>>
  ELSE (CASE text[1] = 47 -> <<37, 50, 70>>
          [] text[1] = 37 -> <<37, 50, 53>>
          [] OTHER -> <<text[1]>>)
       \o EncodeURIComponent(Tail(text))

RECURSIVE DecodeURIComponent(_)
DecodeURIComponent(text) ==
  IF \A i \in DOMAIN text : text[i] # 37 THEN text
  ELSE IF Len(text) >= 3 /\ SubSeq(text, 1, 3) = <<37, 50, 70>>
    THEN <<47>> \o DecodeURIComponent(SubSeq(text, 4, Len(text)))
  ELSE IF Len(text) >= 3 /\ SubSeq(text, 1, 3) = <<37, 50, 53>>
    THEN <<37>> \o DecodeURIComponent(SubSeq(text, 4, Len(text)))
  ELSE <<text[1]>> \o DecodeURIComponent(Tail(text))

\* the texts of the metadataIds, of an encrypted store auth and of two
\* file names ("f.mkv", "a/b")
IdText(m) == IF m = "m1" THEN <<109, 49>> ELSE <<109, 50>>
EncryptedStoreAuths == {<<101, 49>>}
Filenames == {<<102, 46, 109, 107, 118>>, <<97, 47, 98>>}

\* generatePlaybackUrl(encryptedStoreAuth, metadataId, fileInfo, title,
\* filename): the path below the router's mount point
PlaybackPath == <<47, 112, 108, 97, 121, 98, 97, 99, 107, 47>>
GeneratePlaybackUrl(encryptedStoreAuth, metadataId, fileInfo, filename) ==
  PlaybackPath \o encryptedStoreAuth \o <<47>>
    \o Base64Encode(FileInfoJson(fileInfo)) \o <<47>>
    \o IdText(metadataId) \o <<47>>
    \o EncodeURIComponent(filename)

\* the segments of a path: the texts between its '/'
RECURSIVE Segments(_)
Segments(path) ==
  IF \A i \in DOMAIN path : path[i] # 47 THEN <<path>>
  ELSE LET cut == CHOOSE i \in DOMAIN path :
                    path[i] = 47 /\ \A j \in 1..(i - 1) : path[j] # 47
       IN <<SubSeq(path, 1, cut - 1)>>
          \o Segments(SubSeq(path, cut + 1, Len(path)))

NoRoute == <<>>

\* Express matching '/playback/:encryptedStoreAuth/:fileInfo/:metadataId/
\* :filename': four non-empty segments after 'playback', each decoded; any
\* other path does not reach the handler
RouteParams(path) ==
  LET segs == Segments(path)
  IN IF /\ Len(segs) = 6
        /\ segs[1] = <<>>
        /\ segs[2] = <<112, 108, 97, 121, 98, 97, 99, 107>>
        /\ \A i \in 3..6 : segs[i] # <<>>
       THEN [encryptedStoreAuth |-> DecodeURIComponent(segs[3]),
             fileInfo |-> DecodeURIComponent(segs[4]),
             metadataId |-> DecodeURIComponent(segs[5]),
             filename |-> DecodeURIComponent(segs[6])]
       ELSE NoRoute

\* FileInfoSchema.parse(JSON.parse(text)): the FileInfo whose JSON the text
\* is, if any
IsFileInfoJson(text) == \E f \in FileInfos : FileInfoJson(f) = text
ParseFileInfo(text) == CHOOSE f \in FileInfos : FileInfoJson(f) = text

(* --------------------- makeRequest: recursion guard ------------------- *)
MaxCalls == 4

\* Env.RECURSION_THRESHOLD_LIMIT
RecursionThresholdLimit == 1

\* the calls that can be in progress at once
RequestSlots == {1, 2}

\* urls, as the texts they are written with: Env.BASE_URL, Env.INTERNAL_URL
\* and a url under the internal origin
RequestUrls == {<<"base">>, <<"int">>, <<"int", "-", "ip">>}

\* options.forwardIp: absent, or the text of an address
NoForwardIp == <<>>
ForwardIps == {NoForwardIp, <<"ip">>, <<"ip", "-", "ip">>}

\* urlObj after the BASE_URL -> INTERNAL_URL rewrite
FinalUrl(url) == IF url[1] = "base" THEN <<"int">> \o Tail(url) ELSE url

\* `${urlObj.toString()}-${options.forwardIp}`
RequestKey(url, forwardIp) ==
  FinalUrl(url) \o <<"-">>
    \o (IF forwardIp = NoForwardIp THEN <<"undefined">> ELSE forwardIp)

RequestKeys == {RequestKey(u, ip) : u \in RequestUrls, ip \in ForwardIps}

\* Cache get / set / update of the in-memory 'url-count' cache: an entry
\* lasts for the window given when it was set; update keeps the window
CacheGet(cache, key) == cache[key]
CacheSet(cache, key, value) == [cache EXCEPT ![key] = value]
CacheUpdate(cache, key, value) ==
  IF cache[key] = 0 THEN cache ELSE [cache EXCEPT ![key] = value]

\* (await urlCount.get(key)) ?? 0
CurrentCount(cache, key) == CacheGet(cache, key)

\* currentCount > Env.RECURSION_THRESHOLD_LIMIT && !options.ignoreRecursion
BlockedAlways(currentCount, ignoreRecursion) ==
  currentCount > RecursionThresholdLimit
BlockedAtLimit(currentCount, ignoreRecursion) ==
  currentCount > RecursionThresholdLimit + 1 /\ ~ignoreRecursion
Blocked(currentCount, ignoreRecursion) ==
  currentCount > RecursionThresholdLimit /\ ~ignoreRecursion

NoRequest ==
  [pc |-> "idle", key |-> <<>>, ignoreRecursion |-> FALSE,
   currentCount |-> 0, result |-> "none"]

HttpInit ==
  /\ urlCount = [k \in RequestKeys |-> 0]
  /\ rq = [s \in RequestSlots |-> NoRequest]
  /\ rqIssued = 0
  /\ rqPassed = [k \in RequestKeys |-> 0]

\* makeRequest(url, options) up to the read of the count
HttpCall(s, url, forwardIp, ignoreRecursion) ==
  /\ rq[s].pc = "idle"
  /\ rqIssued < MaxCalls
  /\ rqIssued' = rqIssued + 1
  /\ rq' = [rq EXCEPT ![s] =
              [pc |-> "get", key |-> RequestKey(url, forwardIp),
               ignoreRecursion |-> ignoreRecursion,
               currentCount |-> 0, result |-> "none"]]
  /\ UNCHANGED <<lockVars, playbackVars, streamVars, linkVars, pureVars, storeVars, serverVars, urlCount, rqPassed>>

\* const currentCount = (await urlCount.get(key)) ?? 0
HttpGet(s) ==
  /\ rq[s].pc = "get"
  /\ rq' = [rq EXCEPT ![s].pc = "guard",
                      ![s].currentCount = CurrentCount(urlCount, rq[s].key)]
  /\ UNCHANGED <<lockVars, playbackVars, streamVars, linkVars, pureVars, storeVars, serverVars, urlCount, rqIssued, rqPassed>>

\* the guard, then the count is raised or started
GuardAndCount(s) ==
  /\ rq[s].pc = "guard"
  /\ IF Blocked(rq[s].currentCount, rq[s].ignoreRecursion)
       THEN /\ rq' = [rq EXCEPT ![s].pc = "done",
                                ![s].result = "PossibleRecursiveRequestError"]
            /\ UNCHANGED urlCount
       ELSE /\ rq' = [rq EXCEPT ![s].pc = "fetch"]
            /\ urlCount' =
                 IF rq[s].currentCount > 0
                   THEN CacheUpdate(urlCount, rq[s].key,
                                    rq[s].currentCount + 1)
                   ELSE CacheSet(urlCount, rq[s].key, 1)
  /\ UNCHANGED <<lockVars, playbackVars, streamVars, linkVars, pureVars, storeVars, serverVars, rqIssued>>

HttpGuard(s) == GuardAndCount(s) /\ UNCHANGED rqPassed

\* the same step, with the calls that passed the guard counted per key
HttpGuardCounted(s) ==
  /\ GuardAndCount(s)
  /\ rqPassed' =
       IF Blocked(rq[s].currentCount, rq[s].ignoreRecursion) THEN rqPassed
       ELSE [rqPassed EXCEPT ![rq[s].key] = @ + 1]

\* fetch(urlObj.toString(), ...)
HttpFetch(s) ==
  /\ rq[s].pc = "fetch"
  /\ rq' = [rq EXCEPT ![s].pc = "done", ![s].result = "fetch"]
  /\ UNCHANGED <<lockVars, playbackVars, streamVars, linkVars, pureVars, storeVars, serverVars, urlCount, rqIssued, rqPassed>>

\* the call is over
HttpReturn(s) ==
  /\ rq[s].pc = "done"
  /\ rq' = [rq EXCEPT ![s] = NoRequest]
  /\ UNCHANGED <<lockVars, playbackVars, streamVars, linkVars, pureVars, storeVars, serverVars, urlCount, rqIssued, rqPassed>>

\* Env.RECURSION_THRESHOLD_WINDOW has passed since the entry was set
WindowEnds(key) ==
  /\ urlCount[key] > 0
  /\ urlCount' = [urlCount EXCEPT ![key] = 0]
  /\ UNCHANGED <<lockVars, playbackVars, streamVars, linkVars, pureVars, storeVars, serverVars, rq, rqIssued,
                 rqPassed>>

\* the same, with the count of the calls that passed starting again
WindowEndsCounted(key) ==
  /\ urlCount[key] > 0
  /\ urlCount' = [urlCount EXCEPT ![key] = 0]
  /\ rqPassed' = [rqPassed EXCEPT ![key] = 0]
  /\ UNCHANGED <<lockVars, playbackVars, streamVars, linkVars, pureVars, storeVars, serverVars, rq, rqIssued>>

\* userData.cacheAndPlay: absent, or {enabled?, streamTypes?}
StreamTypes == {"torrent", "usenet"}
CacheAndPlayConfigs ==
  {[absent |-> TRUE]}
    \cup [enabled : BOOLEAN]
    \cup [streamTypes : {{}, {"torrent"}, {"torrent", "usenet"}}]
    \cup [enabled : BOOLEAN,
          streamTypes : {{}, {"torrent"}, {"torrent", "usenet"}}]

\* this.userData.cacheAndPlay?.enabled &&
\*   this.userData.cacheAndPlay?.streamTypes?.includes(type)
CacheAndPlayEnabledOnly(user, type) ==
  IF "enabled" \notin DOMAIN user THEN "absent"
  ELSE IF user.enabled THEN "true" ELSE "false"
CacheAndPlayOf(user, type) ==
  IF "enabled" \notin DOMAIN user THEN "absent"
  ELSE IF ~user.enabled THEN "false"
  ELSE IF "streamTypes" \notin DOMAIN user THEN "absent"
  ELSE IF type \in user.streamTypes THEN "true" ELSE "false"

NoStream == [metadataId |-> "none"]

LinkInit ==
  /\ lkStage = "idle"
  /\ lkUser = [absent |-> TRUE]
  /\ lkStream = NoStream
  /\ lkUrl = <<>>
  /\ lkParams = NoRoute

\* getStreams stores the title metadata and _createStream builds the
\* stream of one result, with its playback url
ListStream(user, type, text, encryptedStoreAuth, metadataId, filename) ==
  /\ lkStage = "idle"
  /\ pbStage = "idle"
  /\ lkStage' = "listed"
  /\ lkUser' = user
  /\ mdStore' = mdStore \cup {metadataId}
  /\ LET fileInfo == [type |-> type, text |-> text,
                      cacheAndPlay |-> CacheAndPlayOf(user, type)]
     IN /\ lkStream' = [encryptedStoreAuth |-> encryptedStoreAuth,
                        metadataId |-> metadataId,
                        fileInfo |-> fileInfo, filename |-> filename]
        /\ lkUrl' = GeneratePlaybackUrl(encryptedStoreAuth, metadataId,
                                        fileInfo, filename)
  /\ UNCHANGED <<lockVars, streamVars, httpVars, pureVars, storeVars, serverVars, lkParams, pbStage, pbReq,
                 pbMetadata, pbResolve, pbSent>>

\* the client requests the url; Express routes it
RouteLink ==
  /\ lkStage = "listed"
  /\ lkStage' = "routed"
  /\ lkParams' = RouteParams(lkUrl)
  /\ UNCHANGED <<lockVars, playbackVars, streamVars, httpVars, pureVars, storeVars, serverVars, lkUser,
                 lkStream, lkUrl>>

\* the route parameters as the handler reads them
RequestOf(params) ==
  [encryptedStoreAuth |->
     IF params.encryptedStoreAuth \in EncryptedStoreAuths
       THEN "ok" ELSE "undecryptable",
   fileInfo |->
     LET text == Base64Decode(params.fileInfo)
     IN IF IsFileInfoJson(text)
          THEN [enc |-> "ok", type |-> ParseFileInfo(text).type,
                cacheAndPlay |-> ParseFileInfo(text).cacheAndPlay]
          ELSE [enc |-> "notjson"],
   metadataId |->
     IF \E m \in MetadataIds : IdText(m) = params.metadataId
       THEN CHOOSE m \in MetadataIds : IdText(m) = params.metadataId
       ELSE "unknown",
   filename |-> IF params.filename = <<>> THEN "" ELSE "f.mkv"]

\* the routed request enters the playback handler
FollowLink ==
  /\ lkStage = "routed"
  /\ lkParams # NoRoute
  /\ PlaybackRequest(RequestOf(lkParams))

\* the link is dropped
LinkDone ==
  /\ lkStage = "routed"
  /\ pbStage = "idle"
  /\ lkStage' = "idle"
  /\ lkUser' = [absent |-> TRUE]
  /\ lkStream' = NoStream
  /\ lkUrl' = <<>>
  /\ lkParams' = NoRoute
  /\ UNCHANGED <<lockVars, playbackVars, streamVars, httpVars, pureVars, storeVars, serverVars>>

(* ------------------- selectFileInTorrentOrNZB ------------------------- *)
MaxFiles == 2

NoCall == [fn |-> "none"]
NoRet == [kind |-> "none"]
Undefined == [kind |-> "undefined"]

PureInit ==
  /\ pureCall = NoCall
  /\ pureRet = NoRet

\* the call returned to its caller
PureDone ==
  /\ pureCall # NoCall
  /\ pureCall' = NoCall
  /\ pureRet' = NoRet
  /\ UNCHANGED <<lockVars, debridVars, httpVars, linkVars, storeVars, serverVars>>

\* debridDownload.files: DebridFile {name, size}
FileNames == {"e1.mkv", "e2.mkv", "e1.txt"}
DebridFiles == [name : FileNames, size : {0, 2}]
FileLists == UNION {[1..k -> DebridFiles] : k \in 0..MaxFiles}

\* torrentOrNZB: title and size (0: falsy)
TorrentTitles == {"Show.E1", "Show"}
TorrentOrNZBs == [title : TorrentTitles, size : {0, 4}]

\* what the parser made of a name; a number 0, a text "" and an empty list
\* stand for a member that is absent
ParsedName(name) ==
  CASE name = "e1.mkv" ->
         [title |-> "match", seasons |-> <<1>>, episodes |-> <<1>>, year |-> 0]
    [] name = "e2.mkv" ->
         [title |-> "match", seasons |-> <<1>>, episodes |-> <<2>>, year |-> 0]
    [] name = "e1.txt" ->
         [title |-> "other", seasons |-> <<>>, episodes |-> <<1>>,
          year |-> 2001]
    [] name = "Show.E1" ->
         [title |-> "match", seasons |-> <<>>, episodes |-> <<1>>, year |-> 0]
    [] OTHER ->
         [title |-> "match", seasons |-> <<>>, episodes |-> <<>>, year |-> 0]

\* parsedFiles: a Map from names to their parse; the names in unparsed have
\* no entry
UnparsedSets ==
  {{}, {"e2.mkv"}, TorrentTitles, TorrentTitles \cup {"e2.mkv"}}
ParsedGet(unparsed, name) ==
  IF name \in unparsed THEN Undefined ELSE ParsedName(name)

\* metadata: absent, or {titles, year?, season?, episode?, absoluteEpisode?}
NoMetadata == [absent |-> TRUE]
Metadatas ==
  {NoMetadata,
   [year |-> 0, season |-> 1, episode |-> 1, absoluteEpisode |-> 0],
   [year |-> 0, season |-> 1, episode |-> 2, absoluteEpisode |-> 0],
   [year |-> 0, season |-> 2, episode |-> 3, absoluteEpisode |-> 1],
   [year |-> 2001, season |-> 0, episode |-> 0, absoluteEpisode |-> 0]}

\* options: chosenIndex (-1: absent) and chosenFilename ("": absent)
SelectOptions ==
  [chosenIndex : {-1, 0, 1}, chosenFilename : {""}]
    \cup [chosenIndex : {-1}, chosenFilename : {"Show"}]

Includes(seq, x) == \E i \in DOMAIN seq : seq[i] = x

\* torrentOrNZB.title?.includes(options.chosenFilename)
TitleIncludes(title, text) == text = "Show" \/ text = title

IsVideoFile(file) == file.name \in {"e1.mkv", "e2.mkv"}

IsSeasonWrong(parsed, metadata) ==
  IF /\ Len(parsed.seasons) # 0
     /\ metadata # NoMetadata
     /\ metadata.season # 0
     /\ ~Includes(parsed.seasons, metadata.season)
    THEN ~(/\ Len(parsed.seasons) = 1
           /\ parsed.seasons[1] = 1
           /\ Len(parsed.episodes) # 0
           /\ metadata.absoluteEpisode # 0
           /\ Includes(parsed.episodes, metadata.absoluteEpisode))
    ELSE FALSE

IsEpisodeWrong(parsed, metadata) ==
  /\ Len(parsed.episodes) # 0
  /\ metadata # NoMetadata
  /\ metadata.episode # 0
  /\ ~(\/ Includes(parsed.episodes, metadata.episode)
       \/ (/\ metadata.absoluteEpisode # 0
           /\ Includes(parsed.episodes, metadata.absoluteEpisode)))

\* titleMatch(normaliseTitle(parsed.title), titles, partial_ratio 0.8) is
\* true of the title "match"
IsTitleWrong(parsed, metadata) ==
  /\ parsed.title # ""
  /\ metadata # NoMetadata
  /\ parsed.title # "match"

\* torrentOrNZB.size || files.reduce((max, f) => Math.max(max, f.size), 0)
RECURSIVE MaxFileSize(_)
MaxFileSize(files) ==
  IF files = <<>> THEN 0
  ELSE LET rest == MaxFileSize(Tail(files))
       IN IF Head(files).size > rest THEN Head(files).size ELSE rest
MaxSize(torrentOrNZB, files) ==
  IF torrentOrNZB.size # 0 THEN torrentOrNZB.size ELSE MaxFileSize(files)

\* the score of files[index] (index from 0), in units of 1/maxSize so that
\* (file.size / maxSize) * 50 stays a whole number
FileScore(a, index) ==
  LET file == a.files[index + 1]
      parsed == ParsedGet(a.unparsed, file.name)
      metadata == a.metadata
      maxSize == MaxSize(a.torrentOrNZB, a.files)
      unit == IF maxSize > 0 THEN maxSize ELSE 1
      points ==
        (IF IsVideoFile(file) THEN 1000 ELSE 0)
        + (IF /\ metadata # NoMetadata
              /\ ~(/\ metadata.season # 0
                   /\ metadata.episode # 0
                   /\ metadata.absoluteEpisode # 0)
              /\ metadata.year # 0
              /\ parsed # Undefined
              /\ parsed.year # 0
              /\ metadata.year = parsed.year
             THEN 500 ELSE 0)
        + (IF parsed # Undefined /\ ~IsSeasonWrong(parsed, metadata)
             THEN 500 ELSE 0)
        + (IF parsed # Undefined /\ ~IsEpisodeWrong(parsed, metadata)
             THEN 500 ELSE 0)
        + (IF parsed # Undefined /\ ~IsTitleWrong(parsed, metadata)
             THEN 100 ELSE 0)
        + (IF a.options.chosenIndex = index THEN 25 ELSE 0)
        + (IF /\ a.options.chosenFilename # ""
              /\ TitleIncludes(a.torrentOrNZB.title,
                               a.options.chosenFilename)
             THEN 25 ELSE 0)
  IN points * unit + (IF maxSize > 0 THEN file.size * 50 ELSE 0)

FileScores(a) ==
  [i \in 1..Len(a.files) |->
     [file |-> a.files[i], score |-> FileScore(a, i - 1), index |-> i - 1]]

\* (a, b) => b.score - a.score
CompareScores(a, b) == b.score - a.score

\* Array.prototype.sort with a comparator: stable, an element stays behind
\* the earlier elements it compares equal to
InsertBeforeEqual(sorted, x) ==
  LET later == {i \in DOMAIN sorted : CompareScores(sorted[i], x) >= 0}
      at == IF later = {} THEN Len(sorted) + 1
            ELSE CHOOSE i \in later : \A j \in later : i <= j
  IN SubSeq(sorted, 1, at - 1) \o <<x>> \o SubSeq(sorted, at, Len(sorted))
InsertSorted(sorted, x) ==
  LET later == {i \in DOMAIN sorted : CompareScores(sorted[i], x) > 0}
      at == IF later = {} THEN Len(sorted) + 1
            ELSE CHOOSE i \in later : \A j \in later : i <= j
  IN SubSeq(sorted, 1, at - 1) \o <<x>> \o SubSeq(sorted, at, Len(sorted))
RECURSIVE SortScores(_)
SortScores(scores) ==
  IF scores = <<>> THEN <<>>
  ELSE InsertSorted(SortScores(SubSeq(scores, 1, Len(scores) - 1)),
                    scores[Len(scores)])

SelectCalls ==
  {[fn |-> "selectFileInTorrentOrNZB", torrentOrNZB |-> t, files |-> f,
    unparsed |-> u, metadata |-> m, options |-> o] :
     t \in TorrentOrNZBs, f \in FileLists,
     u \in UnparsedSets, m \in Metadatas,
     o \in SelectOptions}

\* selectFileInTorrentOrNZB(torrentOrNZB, debridDownload, parsedFiles,
\* metadata, options)
SelectFileReturn(a) ==
  /\ pureCall' = a
  /\ IF a.files = <<>>
       THEN pureRet' = [kind |-> "file", bestMatch |-> NoRet,
                        file |-> [name |-> a.torrentOrNZB.title,
                                  size |-> a.torrentOrNZB.size,
                                  index |-> -1]]
       ELSE LET bestMatch == SortScores(FileScores(a))[1]
                parsedFile == ParsedGet(a.unparsed, bestMatch.file.name)
                parsedTitle == ParsedGet(a.unparsed, a.torrentOrNZB.title)
            IN IF /\ a.metadata # NoMetadata
                  /\ parsedFile # Undefined
                  /\ parsedTitle # Undefined
                  /\ \/ IsEpisodeWrong(parsedFile, a.metadata)
                     \/ IsEpisodeWrong(parsedTitle, a.metadata)
                 THEN pureRet' = [kind |-> "undefined",
                                  bestMatch |-> bestMatch]
                 ELSE pureRet' = [kind |-> "file", bestMatch |-> bestMatch,
                                  file |-> bestMatch.file]
  /\ UNCHANGED <<lockVars, debridVars, httpVars, linkVars, storeVars, serverVars>>

SelectFile ==
  /\ pureCall = NoCall
  /\ \E a \in SelectCalls : SelectFileReturn(a)

(* ------------------- validateOption, validateService ------------------ *)
\* values of the configuration: undefined, null, texts (plain or encrypted),
\* numbers, booleans and arrays
Undef == [t |-> "undefined"]
Null == [t |-> "null"]
Str(text, len) == [t |-> "string", text |-> text, len |-> len, enc |-> "no"]
Encrypted(text, ok) ==
  [t |-> "string", text |-> text, len |-> 20,
   enc |-> IF ok THEN "ok" ELSE "bad"]
Num(n) == [t |-> "number", n |-> n]
Bool(b) == [t |-> "boolean", b |-> b]
Arr(len) == [t |-> "array", len |-> len]

TypeOf(value) ==
  IF value.t \in {"null", "array"} THEN "object" ELSE value.t

\* isEncrypted(value), decryptString(value)
IsEncrypted(value) == value.t = "string" /\ value.enc # "no"
DecryptString(value) ==
  IF value.enc = "ok" THEN [success |-> TRUE, data |-> Str(value.text, 1)]
  ELSE [success |-> FALSE]
\* encryptString(text).data
EncryptString(text) == Encrypted(text, TRUE)

Thrown(message) == [kind |-> "error", message |-> message]
Returned(value) == [kind |-> "value", value |-> value]

UserValues ==
  {Undef, Null, Str("undefined", 9), Str("", 0), Str("u", 1),
   Encrypted("u", TRUE), Encrypted("u", FALSE), Num(3), Bool(TRUE), Arr(2)}
ForcedValues == {Undef, Null, Str("f", 1), Encrypted("f", TRUE), Num(5)}
OptionTypes ==
  {"string", "password", "number", "boolean", "select", "multi-select",
   "url", "alert"}
Options ==
  [id : {"o"}, type : OptionTypes, required : BOOLEAN,
   forced : ForcedValues, min : {0, 1}, max : {0}]
    \cup [id : {"o"}, type : {"string", "number", "multi-select"},
          required : {FALSE}, forced : {Undef}, min : {0}, max : {1}]

\* option.forced !== undefined && option.forced !== null ? option.forced
\*   : undefined
ForcedValue(option) ==
  IF option.forced # Undef /\ option.forced # Null THEN option.forced
  ELSE Undef

\* the value validateOption goes on with: 'undefined' is undefined, a forced
\* value replaces it
EffectiveValue(option, value) ==
  IF ForcedValue(option) # Undef THEN ForcedValue(option)
  ELSE IF value = Str("undefined", 9) THEN Undef ELSE value

ValidateOption(option, userValue, decryptValues) ==
  LET value == EffectiveValue(option, userValue)
      tooShort(n) == option.min # 0 /\ n < option.min
      tooLong(n) == option.max # 0 /\ n > option.max
  IN IF value = Undef
       THEN IF option.required THEN Thrown("required") ELSE Returned(Undef)
     ELSE IF option.type = "multi-select"
       THEN IF value.t # "array" THEN Thrown("array")
            ELSE IF tooLong(value.len) THEN Thrown("max")
            ELSE IF tooShort(value.len) THEN Thrown("min")
            ELSE Returned(value)
     ELSE IF option.type = "select" /\ TypeOf(value) # "string"
       THEN Thrown("string")
     ELSE IF option.type = "boolean" /\ TypeOf(value) # "boolean"
       THEN Thrown("boolean")
     ELSE IF option.type = "number" /\ TypeOf(value) # "number"
       THEN Thrown("number")
     ELSE IF option.type = "number" /\ tooShort(value.n)
       THEN Thrown("min")
     ELSE IF option.type = "number" /\ tooLong(value.n)
       THEN Thrown("max")
     ELSE IF /\ option.type \in {"string", "password"}
             /\ TypeOf(value) # "string"
       THEN Thrown("string")
     ELSE IF option.type \in {"string", "password"} /\ tooShort(value.len)
       THEN Thrown("min")
     ELSE IF option.type \in {"string", "password"} /\ tooLong(value.len)
       THEN Thrown("max")
     ELSE IF /\ option.type = "password"
             /\ IsEncrypted(value)
             /\ decryptValues
       THEN IF DecryptString(value).success
              THEN Returned(DecryptString(value).data)
              ELSE Thrown("decrypt")
     ELSE IF option.type = "url" /\ TypeOf(value) # "string"
       THEN Thrown("string")
     ELSE Returned(value)

\* constants.SERVICE_DETAILS: one service with two credentials, one without
\* the feature; requiredCredentials are the credentials it marks required
ServiceIds == {"pikpak", "seedr"}
CredentialIds == <<"email", "password">>
CredentialType(id) == IF id = "password" THEN "password" ELSE "string"

\* Env.FORCED_<SERVICE>_<CREDENTIAL>: a text, or "" when not set
ForcedEnvs == [{"email", "password"} -> {"", "f"}]

\* getEnvironmentServiceDetails()[id].credentials
\* (required: false, whatever SERVICE_DETAILS marks)
EnvironmentCredential(id, marked, forcedEnv) ==
  [id |-> id,
   type |-> CredentialType(id),
   required |-> FALSE,
   forced |-> IF forcedEnv[id] # "" THEN EncryptString(forcedEnv[id])
              ELSE Null,
   min |-> 1,
   max |-> 0]

Services ==
  [id : ServiceIds, enabled : BOOLEAN,
   credentials : [{"email", "password"} -> {Undef, Str("", 0), Str("u", 1)}]]

ServiceCalls ==
  [fn : {"validateService"}, service : Services, decryptValues : BOOLEAN,
   disabledServices : {{}, {"seedr"}}, markedRequired : BOOLEAN,
   forcedEnv : ForcedEnvs]

\* service.enabled after line 680-682
ServiceEnabled(a) ==
  \/ a.service.enabled
  \/ \A i \in DOMAIN CredentialIds : a.forcedEnv[CredentialIds[i]] # ""

\* the loop over serviceMeta.credentials from credential i on
RECURSIVE ValidateCredentials(_, _, _)
ValidateCredentials(a, credentials, i) ==
  IF i > Len(CredentialIds) THEN Returned(credentials)
  ELSE LET id == CredentialIds[i]
           result ==
             ValidateOption(
               EnvironmentCredential(id, a.markedRequired, a.forcedEnv),
               credentials[id], a.decryptValues)
       IN IF result.kind = "error" THEN Thrown("credential")
          ELSE ValidateCredentials(
                 a, [credentials EXCEPT ![id] = result.value], i + 1)

ValidateServiceResult(a) ==
  IF a.service.id \in a.disabledServices THEN Thrown("not found")
  ELSE IF ~ServiceEnabled(a)
    THEN Returned(a.service)
  ELSE LET result == ValidateCredentials(a, a.service.credentials, 1)
       IN IF result.kind = "error" THEN result
          ELSE Returned([a.service EXCEPT !.enabled = TRUE,
                                          !.credentials = result.value])

OptionCalls ==
  [fn : {"validateOption"}, option : Options, value : UserValues,
   decryptValues : BOOLEAN]

\* validateOption(option, value, decryptValues)
ValidateOptionCall ==
  /\ pureCall = NoCall
  /\ \E a \in OptionCalls :
       /\ pureCall' = a
       /\ pureRet' = ValidateOption(a.option, a.value, a.decryptValues)
  /\ UNCHANGED <<lockVars, debridVars, httpVars, linkVars, storeVars, serverVars>>

\* validateService(service, decryptValues)
ValidateService ==
  /\ pureCall = NoCall
  /\ \E a \in ServiceCalls :
       /\ pureCall' = a
       /\ pureRet' = ValidateServiceResult(a)
  /\ UNCHANGED <<lockVars, debridVars, httpVars, linkVars, storeVars, serverVars>>

(* ----------------------------- validateConfig ------------------------- *)
MaxPresets == 2

\* preset.instanceId: a text
InstanceIds == {<<>>, <<"a">>, <<"b">>, <<"a", ".", "b">>}
PresetLists == UNION {[1..k -> [instanceId : InstanceIds]] : k \in 0..MaxPresets}

\* the regex lists of a configuration; FeatureControl.allowedRegexPatterns()
AllowedPatterns == <<"a">>
RegexConfigs ==
  [excluded : {<<>>, <<"a">>, <<"x">>, <<"(">>},
   included : {<<>>, <<"x">>},
   required : {<<>>, <<"a">>},
   preferred : {<<>>, <<[pattern |-> "A"]>>}]

\* config.services, checked where no credential is forced and the service
\* seedr is disabled
ConfigServices ==
  {<<>>,
   <<[id |-> "pikpak", enabled |-> TRUE,
      credentials |-> [email |-> Str("u", 1), password |-> Str("u", 1)]]>>,
   <<[id |-> "seedr", enabled |-> FALSE,
      credentials |-> [email |-> Undef, password |-> Undef]]>>}
ServiceCallOf(service, decryptValues) ==
  [fn |-> "validateService", service |-> service,
   decryptValues |-> decryptValues, disabledServices |-> {"seedr"},
   markedRequired |-> TRUE,
   forcedEnv |-> [id \in {"email", "password"} |-> ""]]

ConfigCalls ==
  [fn : {"validateConfig"}, presets : PresetLists, presetsValid : BOOLEAN,
   services : ConfigServices, regexes : RegexConfigs,
   regexAllowed : BOOLEAN, skipErrorsFromAddonsOrProxies : BOOLEAN,
   othersValid : BOOLEAN]

\* UserDataSchema: instanceId: z.string().min(1)
SchemaError(presets) == \E i \in DOMAIN presets : presets[i].instanceId = <<>>

\* the two tests of an instanceId in the loop over config.presets
InstanceIdErrorIfNotUnique(instanceId, instanceIds) ==
  IF instanceId # <<>> /\ instanceId \in instanceIds THEN "not unique"
  ELSE "none"
InstanceIdError(instanceId, instanceIds) ==
  IF instanceId # <<>> /\ instanceId \in instanceIds THEN "not unique"
  ELSE IF Includes(instanceId, ".") THEN "dot"
  ELSE "none"

\* the loop over config.presets from preset i on, instanceIds being the Set
\* of the ids seen
RECURSIVE PresetsError(_, _, _)
PresetsError(a, instanceIds, i) ==
  IF i > Len(a.presets) THEN "none"
  ELSE LET instanceId == a.presets[i].instanceId
       IN IF InstanceIdError(instanceId, instanceIds) # "none"
            THEN InstanceIdError(instanceId, instanceIds)
          ELSE IF ~a.presetsValid /\ ~a.skipErrorsFromAddonsOrProxies
            THEN "preset"
          ELSE PresetsError(a, instanceIds \cup {instanceId}, i + 1)

\* config.services.map(validateService): the first error, or the services
ValidatedServices(services, decryptValues) ==
  LET results ==
        [i \in DOMAIN services |->
           ValidateServiceResult(ServiceCallOf(services[i], decryptValues))]
  IN IF \E i \in DOMAIN results : results[i].kind = "error"
       THEN Thrown("service")
       ELSE Returned([i \in DOMAIN results |-> results[i].value])

\* the patterns of the four lists
AllRegexes(regexes) ==
  regexes.excluded \o regexes.included \o regexes.required
    \o [i \in DOMAIN regexes.preferred |-> regexes.preferred[i].pattern]

IsAllowedPattern(regex) == Includes(AllowedPatterns, regex)
AllowedRegexes(regexes) == SelectSeq(regexes, IsAllowedPattern)

\* the list is refused: no pattern, or not every pattern, is allowed
RefusedIfNoneAllowed(regexes) == Len(AllowedRegexes(regexes)) = 0
Refused(regexes) ==
  \/ Len(AllowedRegexes(regexes)) = 0
  \/ Len(AllowedRegexes(regexes)) # Len(regexes)

\* compileRegex(regex) throws
CompileFails(regex) == regex = "("

\* validateRegexes(config, skipErrors): "none", or the error thrown
ValidateRegexes(a) ==
  LET regexes == AllRegexes(a.regexes)
  IN IF ~a.regexAllowed /\ Len(regexes) > 0 /\ Refused(regexes)
       THEN IF ~a.skipErrorsFromAddonsOrProxies THEN "permission"
            ELSE "none"
     ELSE IF \E i \in DOMAIN regexes : CompileFails(regexes[i])
       THEN "invalid regex"
     ELSE "none"

\* the loop over config.services that turns the disabled services off
DisableServices(services) ==
  [i \in DOMAIN services |->
     IF services[i].id \in ServiceCallOf(services[i], FALSE).disabledServices
       THEN [services[i] EXCEPT !.enabled = FALSE]
       ELSE services[i]]

ValidateConfigResult(a) ==
  IF SchemaError(a.presets) THEN Thrown("schema")
  ELSE IF PresetsError(a, {}, 1) # "none"
    THEN Thrown(PresetsError(a, {}, 1))
  ELSE IF ~a.othersValid THEN Thrown("other")
  ELSE IF ValidatedServices(a.services, FALSE).kind = "error"
    THEN Thrown("service")
  ELSE IF ValidateRegexes(a) # "none" THEN Thrown(ValidateRegexes(a))
  ELSE Returned([presets |-> a.presets,
                 services |->
                   DisableServices(ValidatedServices(a.services, FALSE).value),
                 regexes |-> a.regexes])

\* validateConfig(data, options)
ValidateConfig ==
  /\ pureCall = NoCall
  /\ \E a \in ConfigCalls :
       /\ pureCall' = a
       /\ pureRet' = ValidateConfigResult(a)
  /\ UNCHANGED <<lockVars, debridVars, httpVars, linkVars, storeVars, serverVars>>

(* ------------- validateConfig: references to presets ------------------ *)
\* lists of addon ids: a reference is the instanceId of a preset, or not
AddonLists == {<<>>, <<<<"a">>>>, <<<<"b">>, <<"a">>>>}

\* config.proxy, config.yearMatching, ...: absent, or an object whose list
\* of addons may be absent
ProxyConfigs ==
  {[absent |-> TRUE], [enabled |-> TRUE]} \cup [proxiedAddons : AddonLists]
MatchingConfigs ==
  {[absent |-> TRUE], [enabled |-> TRUE], [addons |-> <<<<"b">>, <<"a">>>>]}
TitleMatchingConfigs == {[absent |-> TRUE], [addons |-> <<<<"a">>>>]}

\* a group of the configuration, and config.groups: absent, the array of
\* groups of older configurations, or {enabled?, groupings?}
Groups == [addons : AddonLists, condition : {"true"}]
GroupLists == UNION {[1..k -> Groups] : k \in 0..2}
GroupConfigs ==
  {[absent |-> TRUE], [enabled |-> TRUE]} \cup [groupings : GroupLists]
    \cup [array : GroupLists]

\* data.presets is absent (hasPresets false) or a list of presets
ReferenceCalls ==
  {a \in [fn : {"validateConfig"}, hasPresets : BOOLEAN, presets : PresetLists,
          proxy : ProxyConfigs, yearMatching : MatchingConfigs,
          titleMatching : TitleMatchingConfigs,
          seasonEpisodeMatching : TitleMatchingConfigs,
          groups : GroupConfigs, othersValid : BOOLEAN] :
     a.hasPresets \/ a.presets = <<>>}

\* the object has the member
Has(object, member) == member \in DOMAIN object

\* applyMigrations: an array of groups becomes {enabled, groupings, behaviour}
ApplyMigrations(config) ==
  IF Has(config.groups, "array")
    THEN [config EXCEPT !.groups = [groupings |-> config.groups.array]]
    ELSE config

\* config.presets?.map((preset) => preset.instanceId)
ExistingPresetIds(config) ==
  [i \in DOMAIN config.presets |-> config.presets[i].instanceId]

\* addons.filter((addon) => existingPresetIds?.includes(addon)), where
\* existingPresetIds is undefined if there are no presets
FilterAddonsKeepAll(addons, config) == addons
FilterAddons(addons, config) ==
  SelectSeq(addons,
            LAMBDA addon : /\ config.hasPresets
                           /\ Includes(ExistingPresetIds(config), addon))

\* one of yearMatching, titleMatching, seasonEpisodeMatching after the pass
FilterMatching(matching, config) ==
  IF Has(matching, "addons")
    THEN [matching EXCEPT !.addons = FilterAddons(@, config)]
    ELSE matching

RemoveInvalidPresetReferences(config) ==
  [config EXCEPT
     !.proxy =
       IF Has(config.proxy, "proxiedAddons")
         THEN [config.proxy EXCEPT !.proxiedAddons = FilterAddons(@, config)]
         ELSE config.proxy,
     !.yearMatching = FilterMatching(config.yearMatching, config),
     !.titleMatching = FilterMatching(config.titleMatching, config),
     !.seasonEpisodeMatching = FilterMatching(config.seasonEpisodeMatching, config),
     !.groups =
       IF Has(config.groups, "groupings")
         THEN [groupings |->
                 [i \in DOMAIN config.groups.groupings |->
                    [config.groups.groupings[i] EXCEPT
                       !.addons = FilterAddons(@, config)]]]
         ELSE config.groups]

\* validateGroup(group) throws: group.addons.length === 0
ValidateGroupError(group) == Len(group.addons) = 0

\* validateConfig as far as the references go: the pre-pass, the schema, the
\* loop over the presets, the groups, and all other checks as one input
ValidateReferencesResult(a) ==
  LET config == RemoveInvalidPresetReferences(ApplyMigrations(a))
  IN IF ~config.hasPresets \/ SchemaError(config.presets)
       THEN Thrown("schema")
     ELSE IF PresetsError([presets |-> config.presets, presetsValid |-> TRUE,
                           skipErrorsFromAddonsOrProxies |-> FALSE], {}, 1)
               # "none"
       THEN Thrown("instanceId")
     ELSE IF /\ Has(config.groups, "groupings")
             /\ \E i \in DOMAIN config.groups.groupings :
                  ValidateGroupError(config.groups.groupings[i])
       THEN Thrown("Every group must have at least one addon")
     ELSE IF ~a.othersValid THEN Thrown("other")
     ELSE Returned(config)

\* validateConfig(data, options), with the configuration the pre-pass made
ValidateReferences ==
  /\ pureCall = NoCall
  /\ \E a \in ReferenceCalls :
       /\ pureCall' = a
       /\ pureRet' = [prepass |-> RemoveInvalidPresetReferences(ApplyMigrations(a)),
                      result |-> ValidateReferencesResult(a)]
  /\ UNCHANGED <<lockVars, debridVars, httpVars, linkVars, storeVars, serverVars>>

(* ------------------- validateConfig: the maxima ----------------------- *)
MaxItems == 2

\* the lists of the configuration the maxima are for, in the order of the
\* validations object
KeywordLists ==
  {"excluded keywords", "included keywords", "required keywords",
   "preferred keywords"}
ExpressionLists ==
  {"excluded stream expressions", "required stream expressions",
   "preferred stream expressions", "included stream expressions"}
ValidationNames ==
  <<"excluded stream expressions", "required stream expressions",
    "preferred stream expressions", "included stream expressions",
    "excluded keywords", "included keywords", "required keywords",
    "preferred keywords", "groups">>

\* a list of the parsed configuration: absent or an array; config.groups:
\* absent or the object {enabled?, groupings?, behaviour?}
GroupsObject(groupings) == [t |-> "object", groupings |-> groupings]
LimitCalls ==
  [fn : {"validateConfig"},
   keywords : [KeywordLists -> {Undef} \cup {Arr(n) : n \in 1..MaxItems}],
   expressions : [ExpressionLists -> {Undef, Arr(MaxItems)}],
   groups : {Undef, GroupsObject(Undef)}
              \cup {GroupsObject(Arr(n)) : n \in 1..MaxItems},
   maxKeywordFilters : {0, 1}, maxStreamExpressionFilters : {0, 1},
   maxGroups : {0, 1}, othersValid : BOOLEAN]

\* the validations object: name -> [items, max]
Validations(a, name) ==
  IF name \in KeywordLists THEN <<a.keywords[name], a.maxKeywordFilters>>
  ELSE IF name \in ExpressionLists
    THEN <<a.expressions[name], a.maxStreamExpressionFilters>>
  ELSE <<a.groups, a.maxGroups>>

\* (items as any[]).length > max: the length of an array; of an object
\* without a length member undefined, which is greater than nothing
LengthExceeds(items, max) ==
  IF items.t = "array" THEN items.len > max ELSE FALSE

\* items && max && items.length > max
OverMaximum(items, max) ==
  items # Undef /\ max # 0 /\ LengthExceeds(items, max)

\* validateConfig as far as the maxima go: the loop over the validations,
\* and all other checks as one input
ValidateLimitsResult(a) ==
  IF \E i \in DOMAIN ValidationNames :
       OverMaximum(Validations(a, ValidationNames[i])[1],
                   Validations(a, ValidationNames[i])[2])
    THEN LET i == CHOOSE i \in DOMAIN ValidationNames :
                    /\ OverMaximum(Validations(a, ValidationNames[i])[1],
                                   Validations(a, ValidationNames[i])[2])
                    /\ \A j \in 1..(i - 1) :
                         ~OverMaximum(Validations(a, ValidationNames[j])[1],
                                      Validations(a, ValidationNames[j])[2])
         IN Thrown(ValidationNames[i])
  ELSE IF ~a.othersValid THEN Thrown("other")
  ELSE Returned([keywords |-> a.keywords, expressions |-> a.expressions,
                 groups |-> a.groups])

ValidateLimits ==
  /\ pureCall = NoCall
  /\ \E a \in LimitCalls :
       /\ pureCall' = a
       /\ pureRet' = [limits |-> TRUE, result |-> ValidateLimitsResult(a)]
  /\ UNCHANGED <<lockVars, debridVars, httpVars, linkVars, storeVars, serverVars>>

(* ----------------------------- shouldProxy ---------------------------- *)
MaxRules == 2
MaxProxies == 2

\* url.hostname and the host part of a rule, as lists of labels and dots
Hostnames == {<<"localhost">>, <<"a">>, <<"x", ".", "a">>, <<"b">>}
RuleHostnames == {<<"*">>, <<"*", ".", "a">>, <<"a">>, <<"x", ".", "a">>}

\* the part of a rule after the colon; "" if the rule has no colon
RuleValues == {"true", "false", "1", "1x", "x", ""}
ProxyRules == [hostname : RuleHostnames, value : RuleValues]

\* Env.ADDON_PROXY_CONFIG.split(','): no rule if the setting is empty
ProxyCalls ==
  [fn : {"shouldProxy"}, hostname : Hostnames,
   addonProxy : 0..MaxProxies,
   rules : UNION {[1..k -> ProxyRules] : k \in 0..MaxRules}]

\* parseInt(text): the number of the leading digits; NaN if there are none
IsNaNParseInt(text) == text \notin {"1", "1x"}
ParseInt(text) == IF text \in {"1", "1x"} THEN 1 ELSE 0

\* the rule is skipped as invalid
InvalidRule(rule) ==
  rule.value \notin {"true", "false"} /\ IsNaNParseInt(rule.value)

\* hostname.endsWith(suffix)
EndsWith(hostname, suffix) ==
  /\ Len(suffix) <= Len(hostname)
  /\ SubSeq(hostname, Len(hostname) - Len(suffix) + 1, Len(hostname)) = suffix

\* the rule applies to the hostname
RuleApplies(rule, hostname) ==
  \/ rule.hostname = <<"*">>
  \/ /\ Head(rule.hostname) = "*"
     /\ EndsWith(hostname, Tail(rule.hostname))
  \/ hostname = rule.hostname

\* useProxy and proxyIndex as a rule that applies sets them
RuleDecision(rule) ==
  [useProxy |-> rule.value # "false",
   proxyIndex |-> IF ~IsNaNParseInt(rule.value)
                    THEN ParseInt(rule.value)
                  ELSE IF rule.value = "true" THEN 0
                  ELSE -1]

\* the loop over the rules from rule i on
RECURSIVE ApplyRules(_, _, _, _)
ApplyRules(rules, hostname, decision, i) ==
  IF i > Len(rules) THEN decision
  ELSE IF ~InvalidRule(rules[i]) /\ RuleApplies(rules[i], hostname)
    THEN ApplyRules(rules, hostname, RuleDecision(rules[i]), i + 1)
  ELSE ApplyRules(rules, hostname, decision, i + 1)

\* Env.ADDON_PROXY[proxyIndex] === undefined
NoSuchProxy(addonProxy, proxyIndex) ==
  proxyIndex < 0 \/ proxyIndex >= addonProxy

ShouldProxyResult(a) ==
  IF a.addonProxy = 0 THEN [useProxy |-> FALSE, proxyIndex |-> -1]
  ELSE IF a.hostname = <<"localhost">>
    THEN [useProxy |-> FALSE, proxyIndex |-> -1]
  ELSE LET decision ==
             IF Len(a.rules) > 0
               THEN ApplyRules(a.rules, a.hostname,
                               [useProxy |-> TRUE, proxyIndex |-> -1], 1)
               ELSE [useProxy |-> TRUE, proxyIndex |-> 0]
       IN IF decision.useProxy /\ NoSuchProxy(a.addonProxy, decision.proxyIndex)
            THEN [useProxy |-> FALSE, proxyIndex |-> -1]
            ELSE decision

\* shouldProxy(url)
ShouldProxy ==
  /\ pureCall = NoCall
  /\ \E a \in ProxyCalls :
       /\ pureCall' = a
       /\ pureRet' = Returned(ShouldProxyResult(a))
  /\ UNCHANGED <<lockVars, debridVars, httpVars, linkVars, storeVars, serverVars>>

(* ---------------- the title-metadata store over time ------------------ *)
\* Env.BUILTIN_PLAYBACK_LINK_VALIDITY, in ticks of the clock
Validity == 2

\* how many getStreams responses are followed
MaxResponses == 2

NoEntry == [value |-> Undefined, expiresAt |-> 0]
NoStoreCall == [id |-> ""]
NoRead == [metadataId |-> "none"]

\* debridTitleMetadata = {titles, year, season, episode, absoluteEpisode}
\* of the search metadata of the id
DebridTitleMetadata(id) ==
  IF id = "tt1"
    THEN [titles |-> <<"A">>, year |-> 2001]
    ELSE [titles |-> <<"B">>, season |-> 1, episode |-> 2]

\* Cache.set(key, value, ttl) at time t: the entry is replaced and lasts
\* ttl from t
CacheSetIfAbsent(store, key, value, ttl, t) ==
  IF store[key] # NoEntry /\ t < store[key].expiresAt
    THEN store
    ELSE [store EXCEPT ![key] = [value |-> value, expiresAt |-> t + ttl]]
CacheSetFor(store, key, value, ttl, t) ==
  [store EXCEPT ![key] = [value |-> value, expiresAt |-> t + ttl]]

\* Cache.get(key) at time t: the value of an entry that has not expired
CacheGetEarly(store, key, t) ==
  IF store[key] # NoEntry /\ t + 1 < store[key].expiresAt
    THEN store[key].value
    ELSE Undefined
CacheGetAt(store, key, t) ==
  IF store[key] # NoEntry /\ t < store[key].expiresAt
    THEN store[key].value
    ELSE Undefined

StoreInit ==
  /\ msNow = 0
  /\ msStore = [m \in MetadataIds |-> NoEntry]
  /\ msCall = NoStoreCall
  /\ msLinks = {}
  /\ msRead = NoRead

\* getStreams(type, id) up to the end of await metadataStore().set(...)
StoreGetStreams(id) ==
  /\ msCall = NoStoreCall
  /\ Cardinality(msLinks) < MaxResponses
  /\ msCall' = [id |-> id, metadataId |-> MetadataIdOf(id),
                before |-> msStore[MetadataIdOf(id)], writtenAt |-> msNow]
  /\ msStore' = CacheSetFor(msStore, MetadataIdOf(id), DebridTitleMetadata(id),
                            Validity, msNow)
  /\ UNCHANGED <<lockVars, debridVars, httpVars, linkVars, pureVars, serverVars, msNow,
                 msLinks, msRead>>

\* the rest of getStreams: the streams with their playback urls are returned
StoreGetStreamsReturn ==
  /\ msCall # NoStoreCall
  /\ msLinks' = msLinks \cup {[metadataId |-> msCall.metadataId,
                               writtenAt |-> msCall.writtenAt, at |-> msNow]}
  /\ msCall' = NoStoreCall
  /\ UNCHANGED <<lockVars, debridVars, httpVars, linkVars, pureVars, serverVars, msNow,
                 msStore, msRead>>

\* a playback request for a url of a response: metadataStore().get and
\* the 'Metadata not found' check
StorePlayback(link) ==
  /\ msRead' = [metadataId |-> link.metadataId,
                sinceResponse |-> msNow - link.at,
                sinceWrite |-> msNow - link.writtenAt,
                metadata |-> CacheGetAt(msStore, link.metadataId, msNow),
                error |-> IF CacheGetAt(msStore, link.metadataId, msNow) = Undefined
                            THEN "Metadata not found" ELSE ""]
  /\ UNCHANGED <<lockVars, debridVars, httpVars, linkVars, pureVars, serverVars, msNow,
                 msStore, msCall, msLinks>>

\* time passes
StoreTick ==
  /\ msNow < MaxTime
  /\ msNow' = msNow + 1
  /\ UNCHANGED <<lockVars, debridVars, httpVars, linkVars, pureVars, serverVars, msStore,
                 msCall, msLinks, msRead>>

(* --------------------------- server start ----------------------------- *)
\* Env.PRUNE_INTERVAL, in seconds
PruneInterval == 3

NoEnv == [redisUri |-> FALSE, pruneMaxDays |-> -1]

\* REDIS_URI set or not; PRUNE_MAX_DAYS negative, zero or positive
ServerEnvs == [redisUri : BOOLEAN, pruneMaxDays : {-1, 0, 1}]

ServerInit ==
  /\ srvEnv = NoEnv
  /\ srvPc = "off"
  /\ srvDone = <<>>
  /\ srvAnime = "idle"
  /\ srvExit = <<>>
  /\ prPc = "off"
  /\ prTimers = <<>>
  /\ prLast = "none"

\* the catch of start(): process.exit(1)
ExitOnError ==
  /\ srvPc' = "exited"
  /\ srvExit' = Append(srvExit, 1)

\* the process is started in an environment: start() up to the await of
\* initialiseDatabase()
Start(env) ==
  /\ srvPc = "off"
  /\ srvEnv' = env
  /\ srvPc' = "database"
  /\ UNCHANGED <<lockVars, debridVars, httpVars, linkVars, pureVars, storeVars,
                 srvDone, srvAnime, srvExit, prPc, prTimers, prLast>>

\* await initialiseDatabase(): it rethrows the error of DB.initialise
InitialiseDatabase(ok) ==
  /\ srvPc = "database"
  /\ IF ok THEN /\ srvPc' = "redis"
                /\ srvDone' = Append(srvDone, "database")
                /\ UNCHANGED srvExit
           ELSE ExitOnError /\ srvDone' = Append(srvDone, "database failed")
  /\ UNCHANGED <<lockVars, debridVars, httpVars, linkVars, pureVars, storeVars,
                 srvEnv, srvAnime, prPc, prTimers, prLast>>

\* await initialiseRedis(): the connection is tested if REDIS_URI is set
InitialiseRedis(ok) ==
  /\ srvPc = "redis"
  /\ IF ~srvEnv.redisUri
       THEN /\ srvPc' = "ptt"
            /\ UNCHANGED <<srvDone, srvExit>>
     ELSE IF ok
       THEN /\ srvPc' = "ptt"
            /\ srvDone' = Append(srvDone, "redis")
            /\ UNCHANGED srvExit
     ELSE ExitOnError /\ srvDone' = Append(srvDone, "redis failed")
  /\ UNCHANGED <<lockVars, debridVars, httpVars, linkVars, pureVars, storeVars,
                 srvEnv, srvAnime, prPc, prTimers, prLast>>

\* await initialisePTT(), then initialiseAnimeDatabase() is called and not
\* awaited, FeatureControl.initialise(), and initialiseProwlarr() is called
InitialisePTTSwallowsError(ok) ==
  /\ srvPc = "ptt"
  /\ srvPc' = "prowlarr"
  /\ srvDone' = Append(srvDone, IF ok THEN "ptt" ELSE "ptt failed")
  /\ srvAnime' = "running"
  /\ UNCHANGED <<lockVars, debridVars, httpVars, linkVars, pureVars, storeVars,
                 srvEnv, srvExit, prPc, prTimers, prLast>>
InitialisePTT(ok) ==
  /\ srvPc = "ptt"
  /\ IF ok
       THEN /\ srvPc' = "prowlarr"
            /\ srvDone' = Append(srvDone, "ptt")
            /\ srvAnime' = "running"
            /\ UNCHANGED srvExit
       ELSE /\ ExitOnError
            /\ srvDone' = Append(srvDone, "ptt failed")
            /\ UNCHANGED srvAnime
  /\ UNCHANGED <<lockVars, debridVars, httpVars, linkVars, pureVars, storeVars,
                 srvEnv, prPc, prTimers, prLast>>

\* initialiseAnimeDatabase() settles: its error is logged and swallowed
InitialiseAnimeDatabase(ok) ==
  /\ srvAnime = "running"
  /\ srvPc # "exited"
  /\ srvAnime' = IF ok THEN "done" ELSE "failed"
  /\ UNCHANGED <<lockVars, debridVars, httpVars, linkVars, pureVars, storeVars,
                 srvEnv, srvPc, srvDone, srvExit, prPc, prTimers, prLast>>

\* await initialiseProwlarr() settles, its error logged and swallowed; then
\* startAutoPrune() is called if PRUNE_MAX_DAYS >= 0 and runs up to its
\* await of pruneUsers, and app.listen is called
InitialiseProwlarr(ok) ==
  /\ srvPc = "prowlarr"
  /\ srvDone' = Append(srvDone, IF ok THEN "prowlarr" ELSE "prowlarr failed")
  /\ srvPc' = "listen"
  /\ prPc' = IF srvEnv.pruneMaxDays >= 0 THEN "pruning" ELSE prPc
  /\ UNCHANGED <<lockVars, debridVars, httpVars, linkVars, pureVars, storeVars,
                 srvEnv, srvAnime, srvExit, prTimers, prLast>>

\* the callback of app.listen: the server listens, or process.exit(1)
Listen(ok) ==
  /\ srvPc = "listen"
  /\ IF ok THEN srvPc' = "listening" /\ UNCHANGED srvExit
           ELSE ExitOnError
  /\ UNCHANGED <<lockVars, debridVars, httpVars, linkVars, pureVars, storeVars,
                 srvEnv, srvDone, srvAnime, prPc, prTimers, prLast>>

\* startAutoPrune after its await: pruneUsers returned or threw, the empty
\* catch, and setTimeout(startAutoPrune, Env.PRUNE_INTERVAL * 1000)
PruneUsersSettlesNoRetry(ok) ==
  /\ prPc = "pruning"
  /\ srvPc # "exited"
  /\ prLast' = IF ok THEN "pruned" ELSE "threw"
  /\ prPc' = IF ok THEN "waiting" ELSE "off"
  /\ prTimers' = IF ok THEN Append(prTimers, PruneInterval * 1000) ELSE prTimers
  /\ UNCHANGED <<lockVars, debridVars, httpVars, linkVars, pureVars, storeVars,
                 srvEnv, srvPc, srvDone, srvAnime, srvExit>>
PruneUsersSettles(ok) ==
  /\ prPc = "pruning"
  /\ srvPc # "exited"
  /\ prLast' = IF ok THEN "pruned" ELSE "threw"
  /\ prPc' = "waiting"
  /\ prTimers' = Append(prTimers, PruneInterval * 1000)
  /\ UNCHANGED <<lockVars, debridVars, httpVars, linkVars, pureVars, storeVars,
                 srvEnv, srvPc, srvDone, srvAnime, srvExit>>

\* the timer fires: startAutoPrune up to its return or its await
StartAutoPrune ==
  /\ prTimers # <<>>
  /\ srvPc # "exited"
  /\ prTimers' = Tail(prTimers)
  /\ prPc' = IF srvEnv.pruneMaxDays < 0 THEN "off" ELSE "pruning"
  /\ UNCHANGED <<lockVars, debridVars, httpVars, linkVars, pureVars, storeVars,
                 srvEnv, srvPc, srvDone, srvAnime, srvExit, prLast>>

\* the parts outside the lock and the debrid addon, not in use
RestInit == HttpInit /\ LinkInit /\ PureInit /\ StoreInit /\ ServerInit

Init == LockInit /\ PlaybackUnused /\ StreamsInit /\ RestInit

Next ==
  \/ \E c \in Callers : RedisAcquire(c)
  \/ \E c \in Callers, out \in FnOutcomes : RedisPublish(c, out)
  \/ \E c \in Callers : RedisReleaseGet(c)
  \/ \E c \in Callers : RedisReleaseDel(c)
  \/ \E c \in Callers : RedisSubscribed(c)
  \/ \E c \in Callers : RedisRecheck(c)
  \/ \E c \in Callers : RedisDeliver(c)
  \/ \E c \in Callers : RedisOnTimeout(c)
  \/ \E c \in Callers : SqlTryAcquire(c)
  \/ \E c \in Callers, out \in FnOutcomes : SqlFinish(c, out)
  \/ \E c \in Callers : SqlRelease(c)
  \/ \E c \in Callers : SqlPoll(c)
  \/ \E c \in Callers : Crash(c)
  \/ Tick

Spec == Init /\ [][Next]_vars

PlaybackNext ==
  \/ \E r \in PlaybackRequests : PlaybackRequest(r)
  \/ \E out \in ResolveOutcomes : PlaybackAnswer(out)
  \/ PlaybackDone
  \/ \E m \in MetadataIds : StoreSet(m)
  \/ \E m \in MetadataIds : StoreExpire(m)

InitPlayback == LockUnused /\ PlaybackInit /\ StreamsInit /\ RestInit

SpecPlayback == InitPlayback /\ [][PlaybackNext]_vars

StreamsNext ==
  \/ \E id \in StreamIds, ok \in BOOLEAN : GetStreamsCall(id, ok)
  \/ \E t \in TorrentSearches, n \in NzbSearches : SearchesSettle(t, n)
  \/ \E fails \in BOOLEAN \X BOOLEAN : GetStreamsReturn(fails)
  \/ GetStreamsDone
  \/ \E m \in MetadataIds : StoreExpire(m)

InitStreams == LockUnused /\ PlaybackUnused /\ StreamsInit /\ RestInit

SpecStreams == InitStreams /\ [][StreamsNext]_vars

HttpNext ==
  \/ \E s \in RequestSlots, u \in RequestUrls, ip \in ForwardIps,
        ig \in BOOLEAN : HttpCall(s, u, ip, ig)
  \/ \E s \in RequestSlots : HttpGet(s)
  \/ \E s \in RequestSlots : HttpGuard(s)
  \/ \E s \in RequestSlots : HttpFetch(s)
  \/ \E s \in RequestSlots : HttpReturn(s)
  \/ \E k \in RequestKeys : WindowEnds(k)

InitHttp == LockUnused /\ PlaybackUnused /\ StreamsInit /\ RestInit

SpecHttp == InitHttp /\ [][HttpNext]_vars

\* concurrent calls for the keys of one url, the calls that passed counted
RaceNext ==
  \/ \E s \in RequestSlots, ip \in {NoForwardIp, <<"ip">>}, ig \in BOOLEAN :
       HttpCall(s, <<"int">>, ip, ig)
  \/ \E s \in RequestSlots : HttpGet(s)
  \/ \E s \in RequestSlots : HttpGuardCounted(s)
  \/ \E s \in RequestSlots : HttpFetch(s)
  \/ \E s \in RequestSlots : HttpReturn(s)
  \/ \E k \in RequestKeys : WindowEndsCounted(k)

SpecRace == InitHttp /\ [][RaceNext]_vars

LinkNext ==
  \/ \E user \in CacheAndPlayConfigs, type \in StreamTypes,
        text \in UrlTexts, auth \in EncryptedStoreAuths,
        m \in MetadataIds, name \in Filenames :
        ListStream(user, type, text, auth, m, name)
  \/ RouteLink
  \/ FollowLink
  \/ \E out \in ResolveOutcomes : PlaybackAnswer(out)
  \/ PlaybackDone
  \/ LinkDone
  \/ \E m \in MetadataIds : StoreExpire(m)

InitLink == LockUnused /\ PlaybackUnused /\ StreamsInit /\ RestInit

SpecLink == InitLink /\ [][LinkNext]_vars

InitPure == LockUnused /\ PlaybackUnused /\ StreamsInit /\ RestInit

SelectNext ==
  \/ SelectFile
  \/ PureDone

SpecSelect == InitPure /\ [][SelectNext]_vars

OptionNext ==
  \/ ValidateOptionCall
  \/ ValidateService
  \/ PureDone

SpecOption == InitPure /\ [][OptionNext]_vars

ConfigNext ==
  \/ ValidateConfig
  \/ PureDone

SpecConfig == InitPure /\ [][ConfigNext]_vars

LimitsNext ==
  \/ ValidateLimits
  \/ PureDone

SpecLimits == InitPure /\ [][LimitsNext]_vars

ProxyNext ==
  \/ ShouldProxy
  \/ PureDone

SpecProxy == InitPure /\ [][ProxyNext]_vars

ReferencesNext ==
  \/ ValidateReferences
  \/ PureDone

SpecReferences == InitPure /\ [][ReferencesNext]_vars

StoreNext ==
  \/ \E id \in SupportedIds : StoreGetStreams(id)
  \/ StoreGetStreamsReturn
  \/ \E link \in msLinks : StorePlayback(link)
  \/ StoreTick

SpecStore == InitPure /\ [][StoreNext]_vars

ServerNext ==
  \/ \E env \in ServerEnvs : Start(env)
  \/ \E ok \in BOOLEAN : InitialiseDatabase(ok)
  \/ \E ok \in BOOLEAN : InitialiseRedis(ok)
  \/ \E ok \in BOOLEAN : InitialisePTT(ok)
  \/ \E ok \in BOOLEAN : InitialiseAnimeDatabase(ok)
  \/ \E ok \in BOOLEAN : InitialiseProwlarr(ok)
  \/ \E ok \in BOOLEAN : Listen(ok)
  \/ \E ok \in BOOLEAN : PruneUsersSettles(ok)
  \/ StartAutoPrune

SpecServer == InitPure /\ [][ServerNext]_vars

\* the event loop runs what is ready: a settled promise is resumed, a timer
\* that is due fires
SpecServerLive ==
  /\ InitPure
  /\ [][ServerNext]_vars
  /\ WF_vars(\E ok \in BOOLEAN : PruneUsersSettles(ok))
  /\ WF_vars(StartAutoPrune)

(* ====================== distributed lock: claims ====================== *)
Waiters == {c \in Callers : pc[c] # "idle" /\ c \notin Winners}
Finished(c) == pc[c] = "done"
IsTimeout(o) ==
  o.kind = "error" /\ o.message \in {RedisTimeoutMsg, SqlTimeoutMsg}
Succeeded == {p \in Winners : produced[p].kind = "value"}
Failed == {p \in Winners : produced[p].kind = "error"}

\* C1 as stated: at every moment at most one producer is executing for the
\* key, whatever its running time relative to the ttl.
C1_SingleFlightAlways == Cardinality(Running) <= 1

\* C1, amended: at most one producer is executing for the key as long as no
\* lock has expired while its holder was still running or releasing.
C1_SingleFlightWithinTtl == ~overrun => Cardinality(Running) <= 1

\* C1 witness: a producer runs within its ttl while a second caller waits.
C1_Witness ==
  /\ ~overrun
  /\ \E c, d \in Callers :
       pc[c] = "running" /\ pc[d] \in {"subscribing", "waiting", "polling"}

\* C2 as stated: while the first producer has not finished (so every call so
\* far was issued before it finished), the producer has been invoked once.
C2_InvokedOnceBeforeFinish ==
  (pc[1] = "running" /\ \A c \in Callers : pc[c] # "crashed")
     => Cardinality(Winners) <= 1

\* C2, amended: when every acquisition attempt so far was made while the
\* first winner's lock was held (not released, not expired), the producer
\* was invoked exactly once, only the winner returns cached=false, and it
\* does so when its producer succeeded.
C2_InvokedOnceWhileHeld ==
  LET uncached == {c \in Callers :
                     outcome[c].kind = "value" /\ ~outcome[c].cached}
  IN ~lateAttempt =>
       /\ Cardinality(Winners) <= 1
       /\ (\E c \in Callers : pc[c] # "idle") => Cardinality(Winners) = 1
       /\ uncached \subseteq Winners
       /\ \A w \in Winners :
            Finished(w) /\ produced[w].kind = "value" => uncached = {w}

\* C2 witness: all calls were made while the lock was held, all have
\* returned, one with cached=false and the others with cached=true.
C2_Witness ==
  /\ ~lateAttempt
  /\ \A c \in Callers : Finished(c) /\ outcome[c].kind = "value"
  /\ Cardinality({c \in Callers : outcome[c].cached}) = NCallers - 1

\* C3 as stated: once the producers of the key have completed successfully,
\* no waiter has ended with a timeout.
C3_NoWaiterTimesOut ==
  (Winners # {} /\ \A p \in Winners : Finished(p) /\ p \in Succeeded)
     => \A w \in Waiters : Finished(w) => ~IsTimeout(outcome[w])

\* C3, amended: a winner whose producer succeeded returns {result,
\* cached:false}; when no producer failed, every waiter that has ended
\* returned {result, cached:true} with a producer having succeeded, or
\* failed with the lock-timeout error.
C3_WaiterCachedOrTimeout ==
  /\ \A p \in Succeeded :
       Finished(p) =>
         outcome[p] = [kind |-> "value", result |-> produced[p].v,
                       cached |-> FALSE]
  /\ \A w \in Waiters :
       Finished(w) /\ outcome[w].kind = "value" =>
         outcome[w].cached /\ Succeeded # {}
  /\ Failed = {} =>
       \A w \in Waiters :
         Finished(w) => outcome[w].kind = "value" \/ IsTimeout(outcome[w])

\* C3 witness: the producer succeeded, the winner returned cached=false and
\* a waiter returned the same result with cached=true.
C3_Witness ==
  \E p \in Succeeded, w \in Waiters :
    /\ Finished(p) /\ Finished(w)
    /\ outcome[w] = [kind |-> "value", result |-> produced[p].v,
                     cached |-> TRUE]

\* C4 as stated: when the only producer of the key threw, every waiter that
\* has ended rejected with the producer's error message.
C4_WaitersGetSameError ==
  \A p \in Failed :
    Winners = {p} =>
      \A w \in Waiters :
        Finished(w) =>
          outcome[w] = [kind |-> "error", message |-> produced[p].message]

\* C4, amended: the winner rejects with the producer's error; a waiter that
\* rejects does so with the message of a failed producer ('Error' standing
\* for an empty message) or with the lock-timeout error; a waiter receives a
\* value only if some producer succeeded.
C4_WaitersGetStoredError ==
  /\ \A p \in Failed :
       Finished(p) =>
         outcome[p] = [kind |-> "error", message |-> produced[p].message]
  /\ \A w \in Waiters :
       Finished(w) /\ outcome[w].kind = "error" =>
         \/ IsTimeout(outcome[w])
         \/ \E p \in Failed :
              outcome[w].message =
                IF produced[p].message = "" THEN "Error"
                                            ELSE produced[p].message
  /\ \A w \in Waiters :
       Finished(w) /\ outcome[w].kind = "value" => Succeeded # {}

\* C4 witness: a producer threw an error with a message and a waiter
\* rejected with that message.
C4_Witness ==
  \E p \in Failed, w \in Waiters :
    /\ Finished(w) /\ produced[p].message = "boom"
    /\ outcome[w] = [kind |-> "error", message |-> "boom"]

\* the moment from which a waiter's timeout is counted
WaitingSince(w) ==
  IF backend = "redis" THEN timer[w] - opts.timeout ELSE startTime[w]
Waiting == {w \in Callers : pc[w] \in {"recheck", "waiting", "polling"}}

\* C5 as stated: no waiter is still waiting later than `timeout` after it
\* began waiting.
C5_EndsWithinTimeout ==
  \A w \in Waiting : now - WaitingSince(w) <= opts.timeout

\* C5, amended: a waiter ends only by reading a published/stored result, by
\* its timeout, or (Redis) at once with the timeout error when its re-check
\* finds the lock key gone; a Redis waiter ends no later than `timeout`
\* after its subscription completed, a SQL waiter at its first poll at or
\* after `timeout`, less than timeout + retryInterval after it began.
C5_WaiterEnds ==
  /\ [](\A w \in Waiting :
          IF backend = "redis"
            THEN now - WaitingSince(w) <= opts.timeout
            ELSE now - WaitingSince(w) < opts.timeout + opts.retryInterval)
  /\ [][\A w \in Waiting :
          pc'[w] = "done" =>
            IF IsTimeout(outcome'[w])
              THEN IF backend = "redis"
                     THEN \/ now - WaitingSince(w) >= opts.timeout
                          \/ pc[w] = "recheck" /\ RedisGet = 0
                     ELSE now - WaitingSince(w) >= opts.timeout
              ELSE IF backend = "redis"
                     THEN inbox[w] # <<>>
                     ELSE sqlRow # NoLock /\ sqlRow.result # <<>>]_vars

\* C5 witness: a SQL waiter has ended with the timeout error at a poll
\* later than `timeout` after it began waiting.
C5_Witness ==
  \E w \in Waiters :
    /\ Finished(w) /\ backend = "sql" /\ IsTimeout(outcome[w])
    /\ now - opts.retryInterval >= 0
    /\ opts.retryInterval > opts.timeout

\* C6 as stated: a result received with cached=true is identical to the
\* value a winner's producer returned.
C6_CachedIdentical ==
  \A w \in Waiters :
    Finished(w) /\ outcome[w].kind = "value" =>
      \E p \in Succeeded : outcome[w].result = produced[p].v

\* C6, amended: a result received with cached=true is the JSON-decoded form
\* of a value some winner's producer returned: identical to it when JSON
\* represents the value, and null for NaN; the winner returns the value
\* itself.
C6_CachedIsJsonOfWinner ==
  /\ \A w \in Waiters :
       Finished(w) /\ outcome[w].kind = "value" =>
         \E p \in Succeeded :
           IF produced[p].v = "NaN" THEN outcome[w].result = "null"
                                    ELSE outcome[w].result = produced[p].v
  /\ \A p \in Succeeded :
       Finished(p) => outcome[p].result = produced[p].v

\* C6 witness: a waiter received the value "x" its winner produced.
C6_Witness ==
  \E w \in Waiters, p \in Succeeded :
    /\ produced[p].v = "x"
    /\ outcome[w].kind = "value" /\ outcome[w].result = "x"

\* the caller that acquired the lock last (calls are numbered in order)
LastWinner == CHOOSE h \in Winners : \A d \in Winners : d <= h

\* C7: when the last holder of the lock crashed without releasing it and
\* more than ttl has passed since it acquired, the next withLock call
\* acquires the lock and runs its producer.
C7_ExpiredLockStopsBlocking ==
  [][\A c \in Callers :
       (/\ pc[c] = "idle" /\ pc'[c] # "idle"
        /\ Winners # {}
        /\ pc[LastWinner] = "crashed"
        /\ lease[LastWinner] < now)
         => pc'[c] = "running" /\ lease'[c] = now + opts.ttl]_vars

\* C7 witness: a caller runs its producer after acquiring the lock a
\* crashed holder never released.
C7_Witness ==
  \E h, c \in Callers :
    /\ h < c /\ pc[h] = "crashed" /\ pc[c] = "running"
    /\ lease[h] < lease[c] - opts.ttl
    /\ \A d \in Callers : h < d /\ d < c => d \notin Winners

(* ====================== playback endpoint: claims ===================== *)
\* the request the handler has just taken names a metadataId the store
\* does not hold, or carries a store auth that does not decrypt
Unplayable ==
  /\ pbStage = "idle" /\ pbStage' # "idle"
  /\ \/ pbReq'.metadataId \notin mdStore
     \/ pbReq'.encryptedStoreAuth = "undecryptable"

\* C8: the playback endpoint rejects with a bad-request error, without
\* calling the debrid service's resolve, any request whose metadataId is
\* not present in the metadata store or whose encryptedStoreAuth fails to
\* decrypt.
C8_RejectsWithBadRequest ==
  [][Unplayable =>
       pbResolve' = <<>> /\ pbSent' = <<APIError("BAD_REQUEST")>>]_vars

\* C8, the part the handler keeps: such a request never reaches resolve and
\* is answered with an API error.
C8_RejectsWithoutResolve ==
  [][Unplayable =>
       /\ pbResolve' = <<>>
       /\ Len(pbSent') = 1 /\ pbSent'[1].kind = "apiError"]_vars

\* C8 witness: a request for a metadataId the store does not hold, whose
\* other parameters are well formed, was rejected.
C8_Witness ==
  /\ pbStage = "responded" /\ pbResolve = <<>>
  /\ pbReq.metadataId \in MetadataIds \ mdStore
  /\ pbReq.fileInfo.enc = "ok" /\ pbReq.encryptedStoreAuth = "ok"
  /\ pbSent = <<APIError("BAD_REQUEST")>>

\* the redirect C9 expects for an outcome of resolve
ExpectedRedirect(out) ==
  IF out.kind = "url"
    THEN [kind |-> "redirect", status |-> 307, location |-> StreamUrl]
  ELSE IF out.kind = "none"
    THEN [kind |-> "redirect", status |-> 302,
          location |-> StaticUrl("DOWNLOADING")]
  ELSE [kind |-> "redirect", status |-> 302,
        location |-> StaticUrl(StaticFileFor(out))]

\* C9: every playback request that passes validation is answered with
\* exactly one redirect: status 307 to the resolved URL when resolve
\* returns a URL, status 302 to the static DOWNLOADING placeholder when
\* resolve returns no URL, and status 302 to a static error placeholder
\* chosen by the DebridError code when resolve throws; an error thrown by
\* resolve is never forwarded as an API error response.
C9_OneRedirectPerOutcome ==
  (pbStage = "responded" /\ pbResolve # <<>>) =>
    pbSent = <<ExpectedRedirect(pbResolve[1].outcome)>>

\* C9, the part the handler keeps: exactly one response, a redirect to the
\* expected location, never an API error.
C9_OneRedirectSomeStatus ==
  (pbStage = "responded" /\ pbResolve # <<>>) =>
    /\ Len(pbSent) = 1 /\ Len(pbResolve) = 1
    /\ pbSent[1].kind = "redirect"
    /\ pbSent[1].location = ExpectedRedirect(pbResolve[1].outcome).location

\* C9 witness: resolve returned a URL and the request was answered.
C9_Witness ==
  /\ pbStage = "responded" /\ pbResolve # <<>>
  /\ pbResolve[1].outcome.kind = "url"
  /\ Len(pbSent) = 1 /\ pbSent[1].location = StreamUrl

(* ========================= getStreams: claims ========================= *)
FailedSearches == {i \in 1..2 : gsSearch[i].status = "rejected"}

\* searchPromises with every failed search replaced by one that found
\* nothing
FailedAsEmpty ==
  [i \in 1..2 |->
     IF i \in FailedSearches THEN Fulfilled(<<>>) ELSE gsSearch[i]]

\* a run of getStreams went through its searches and has returned
Searched == gsStage = "returned" /\ gsSearch # NoSearch

\* C10: in getStreams for a supported id, a failure of the torrent search
\* or of the NZB search is never fatal: getStreams does not throw, it
\* returns one inline error stream per failed search, and the streams
\* derived from the other search are the same as in a run where the failed
\* search had returned no results.
C10_SearchFailureNotFatal ==
  Searched =>
    LET mid == MetadataIdOf(gsId)
        streams == ResultStreams(FailedAsEmpty, gsFails, mid)
        errors == ProcessingErrors(FailedAsEmpty, gsFails)
        own == [i \in 1..Cardinality(FailedSearches) |->
                  gsReturn.streams[Len(streams) + i]]
    IN /\ gsReturn.kind = "return"
       /\ Len(gsReturn.streams) =
            Len(streams) + Cardinality(FailedSearches) + Len(errors)
       /\ SubSeq(gsReturn.streams, 1, Len(streams)) = streams
       /\ SubSeq(gsReturn.streams,
                 Len(streams) + Cardinality(FailedSearches) + 1,
                 Len(gsReturn.streams)) = errors
       /\ \A i \in DOMAIN own : own[i].name = ErrorStream("").name
       /\ {own[i].description : i \in DOMAIN own} =
            {gsSearch[i].reason.message : i \in FailedSearches}

\* C10 witness: the torrent search failed, the NZB search found something,
\* and getStreams returned the NZB's stream and the error stream.
C10_Witness ==
  /\ Searched
  /\ gsSearch[1].status = "rejected"
  /\ gsSearch[2].status = "fulfilled" /\ gsSearch[2].value # <<>>
  /\ gsFails = <<FALSE, FALSE>>
  /\ Len(gsReturn.streams) = Len(gsSearch[2].value) + 1

(* ========================= makeRequest: claims ======================== *)
\* the call in slot s has passed the guard or was stopped by it
Guarded(s) == rq[s].pc \in {"fetch", "done"}

\* C11: in makeRequest, a call without ignoreRecursion whose (final url,
\* forwardIp) key already has a count above RECURSION_THRESHOLD_LIMIT
\* within the current window fails with PossibleRecursiveRequestError and
\* issues no outbound fetch; a call with ignoreRecursion=true never fails
\* with PossibleRecursiveRequestError.  The count is the one the call reads
\* from the cache.
C11_RecursionGuard ==
  /\ [][\A s \in RequestSlots :
          (rq[s].pc = "get" /\ rq'[s].pc = "guard") =>
            rq'[s].currentCount = urlCount[rq[s].key]]_vars
  /\ [](\A s \in RequestSlots :
          /\ (/\ Guarded(s)
              /\ ~rq[s].ignoreRecursion
              /\ rq[s].currentCount > RecursionThresholdLimit)
               => /\ rq[s].pc = "done"
                  /\ rq[s].result = "PossibleRecursiveRequestError"
          /\ rq[s].ignoreRecursion
               => rq[s].result # "PossibleRecursiveRequestError")

\* C11 witness: one call was stopped by the guard while another, made with
\* ignoreRecursion for a key equally above the limit, went out.
C11_Witness ==
  \E s, t \in RequestSlots :
    /\ rq[s].pc = "done" /\ ~rq[s].ignoreRecursion
    /\ rq[s].result = "PossibleRecursiveRequestError"
    /\ rq[t].pc = "done" /\ rq[t].ignoreRecursion
    /\ rq[t].currentCount > RecursionThresholdLimit
    /\ rq[t].result = "fetch"


(* ------------------------------ claim C12 ----------------------------- *)
\* what the endpoint recovers from the route parameters of a link
Recovered(params) ==
  /\ params # NoRoute
  /\ params.encryptedStoreAuth = lkStream.encryptedStoreAuth
  /\ IsFileInfoJson(Base64Decode(params.fileInfo))
  /\ ParseFileInfo(Base64Decode(params.fileInfo)) = lkStream.fileInfo
  /\ params.metadataId = IdText(lkStream.metadataId)

\* C12: the url built by generatePlaybackUrl, when routed to the playback
\* endpoint, yields route parameters from which the endpoint recovers the
\* same fileInfo, the same metadataId and the same store auth
C12_LinkRoundTrip == lkStage = "routed" => Recovered(lkParams)

\* C12, the part that holds: a link that reaches the handler carries what
\* was encoded
C12_RoundTripWhenRouted ==
  (lkStage = "routed" /\ lkParams # NoRoute) => Recovered(lkParams)


(* ------------------------------ claim C13 ----------------------------- *)
\* the user's cacheAndPlay covers the stream type: enabled is true and
\* streamTypes contains the type
Covers(user, type) ==
  /\ "enabled" \in DOMAIN user
  /\ user.enabled
  /\ "streamTypes" \in DOMAIN user
  /\ type \in user.streamTypes

\* C13: the cacheAndPlay argument passed to resolve at playback is true
\* exactly when, at listing time, the user's cacheAndPlay was enabled and
\* its streamTypes contained the stream's type, and false otherwise
C13_CacheAndPlayOnlyIfCovered ==
  (lkStage = "routed" /\ pbResolve # <<>>) =>
    (pbResolve[1].cacheAndPlay = Covers(lkUser, lkStream.fileInfo.type))

\* resolve was called with cacheAndPlay true for a usenet stream
C13_Witness ==
  /\ lkStage = "routed"
  /\ pbResolve # <<>>
  /\ pbResolve[1].cacheAndPlay
  /\ lkStream.fileInfo.type = "usenet"

\* resolve was called with cacheAndPlay false for a link without the member
C13_WitnessAbsent ==
  /\ lkStage = "routed"
  /\ pbResolve # <<>>
  /\ ~pbResolve[1].cacheAndPlay
  /\ lkStream.fileInfo.cacheAndPlay = "absent"


(* ------------------------------ claim C14 ----------------------------- *)
\* a call of selectFileInTorrentOrNZB with a non-empty file list is over
Selected ==
  /\ pureCall.fn = "selectFileInTorrentOrNZB"
  /\ pureCall.files # <<>>

\* C14: for a download with a non-empty file list, selectFileInTorrentOrNZB
\* picks the file with the highest rubric score, and among several files
\* with the highest score the one with the smallest position
C14_BestScoreEarliestIndex ==
  Selected =>
    LET best == pureRet.bestMatch.index
    IN /\ best \in 0..(Len(pureCall.files) - 1)
       /\ pureRet.bestMatch.file = pureCall.files[best + 1]
       /\ \A j \in 0..(Len(pureCall.files) - 1) :
            /\ FileScore(pureCall, j) <= FileScore(pureCall, best)
            /\ FileScore(pureCall, j) = FileScore(pureCall, best)
                 => best <= j
       /\ pureRet.kind = "file" => pureRet.file = pureCall.files[best + 1]

\* two different files share the highest score and the first is returned
C14_Witness ==
  /\ Selected
  /\ Len(pureCall.files) = 2
  /\ pureCall.files[1] # pureCall.files[2]
  /\ FileScore(pureCall, 0) = FileScore(pureCall, 1)
  /\ pureRet.kind = "file"
  /\ pureRet.file = pureCall.files[1]

\* the file at the second position has the highest score alone and is picked
C14_WitnessLater ==
  /\ Selected
  /\ Len(pureCall.files) = 2
  /\ FileScore(pureCall, 1) > FileScore(pureCall, 0)
  /\ pureRet.bestMatch.index = 1

(* ------------------------------ claim C15 ----------------------------- *)
\* the parse of the picked file exists and its episodes include neither the
\* requested episode nor the requested absolute episode
BestEpisodeWrong ==
  /\ Selected
  /\ ParsedGet(pureCall.unparsed, pureRet.bestMatch.file.name) # Undefined
  /\ IsEpisodeWrong(ParsedGet(pureCall.unparsed,
                              pureRet.bestMatch.file.name),
                    pureCall.metadata)

\* C15: whenever the best-scoring file's parsed episodes do not include the
\* requested episode (nor the requested absolute episode), no file is
\* returned, whether or not a parse of the torrent/NZB title is available
C15_RejectsEpisodeMismatch == BestEpisodeWrong => pureRet.kind = "undefined"

\* C15, the part that holds: the same when the parse of the title is
\* available
C15_RejectsWhenTitleParsed ==
  (/\ BestEpisodeWrong
   /\ ParsedGet(pureCall.unparsed, pureCall.torrentOrNZB.title) # Undefined)
    => pureRet.kind = "undefined"


(* ------------------------------ claim C17 ----------------------------- *)
\* the user's value is missing
Missing(value) == value = Undef \/ value = Str("undefined", 9)

\* a forced value, as it is or decrypted
FromForced(value, forced) ==
  \/ value = forced
  \/ IsEncrypted(forced) /\ value = DecryptString(forced).data

\* C17, validateOption: a forced value replaces the user's value in the
\* result; with no forced value and the user's value missing, a required
\* option produces an error
C17_OptionForcedAndRequired ==
  pureCall.fn = "validateOption" =>
    /\ (ForcedValue(pureCall.option) # Undef /\ pureRet.kind = "value")
         => FromForced(pureRet.value, pureCall.option.forced)
    /\ (/\ ForcedValue(pureCall.option) = Undef
        /\ Missing(pureCall.value)
        /\ pureCall.option.required)
         => pureRet.kind = "error"

\* C17, validateService: a forced credential replaces the user's in the
\* service returned
C17_ServiceForced ==
  (/\ pureCall.fn = "validateService"
   /\ ServiceEnabled(pureCall)
   /\ pureRet.kind = "value")
    => \A id \in {"email", "password"} :
         pureCall.forcedEnv[id] # ""
           => FromForced(pureRet.value.credentials[id],
                         EncryptString(pureCall.forcedEnv[id]))

\* C17, validateService: a required credential of an enabled service that
\* is missing and not forced produces an error
C17_ServiceRequired ==
  (/\ pureCall.fn = "validateService"
   /\ pureCall.service.id \notin pureCall.disabledServices
   /\ ServiceEnabled(pureCall)
   /\ pureCall.markedRequired
   /\ \E id \in {"email", "password"} :
        /\ pureCall.forcedEnv[id] = ""
        /\ Missing(pureCall.service.credentials[id]))
    => pureRet.kind = "error"

\* C17: both hold, in validateOption and for the credentials of an enabled
\* service in validateService
C17_ForcedAndRequired ==
  /\ C17_OptionForcedAndRequired
  /\ C17_ServiceForced
  /\ C17_ServiceRequired


(* ------------------------------ claim C16 ----------------------------- *)
\* two presets of the list share an instanceId; an instanceId has a '.'
SharedInstanceId(presets) ==
  \E i, j \in DOMAIN presets :
    i # j /\ presets[i].instanceId = presets[j].instanceId
DottedInstanceId(presets) ==
  \E i \in DOMAIN presets : Includes(presets[i].instanceId, ".")

\* C16: validateConfig rejects every configuration in which two presets
\* share an instanceId or an instanceId contains a '.'; in every
\* configuration it returns the instanceIds are pairwise distinct and
\* dot-free
C16_InstanceIdsUniqueDotFree ==
  pureCall.fn = "validateConfig" =>
    /\ (SharedInstanceId(pureCall.presets)
          \/ DottedInstanceId(pureCall.presets))
         => pureRet.kind = "error"
    /\ pureRet.kind = "value" =>
         /\ ~SharedInstanceId(pureRet.value.presets)
         /\ ~DottedInstanceId(pureRet.value.presets)

\* two presets with the same dot-free instanceId are rejected also when
\* errors are skipped
C16_Witness ==
  /\ pureCall.fn = "validateConfig"
  /\ SharedInstanceId(pureCall.presets)
  /\ pureCall.skipErrorsFromAddonsOrProxies
  /\ pureRet = Thrown("not unique")

\* a configuration with two presets is returned although validatePreset
\* failed and was skipped
C16_WitnessReturned ==
  /\ pureCall.fn = "validateConfig"
  /\ Len(pureCall.presets) = 2
  /\ ~pureCall.presetsValid
  /\ pureRet.kind = "value"

\* a dotted instanceId is rejected also when errors are skipped
C16_WitnessDot ==
  /\ pureCall.fn = "validateConfig"
  /\ DottedInstanceId(pureCall.presets)
  /\ ~SharedInstanceId(pureCall.presets)
  /\ pureCall.skipErrorsFromAddonsOrProxies
  /\ pureRet = Thrown("dot")

(* ------------------------------ claim C18 ----------------------------- *)
\* every pattern of the four lists is, as a text, an entry of the allow-list
AllPatternsAllowed(regexes) ==
  \A i \in DOMAIN AllRegexes(regexes) :
    \E j \in DOMAIN AllowedPatterns :
      AllRegexes(regexes)[i] = AllowedPatterns[j]

\* C18 as stated: when the user is not permitted free regex, validateConfig
\* returns a configuration only if every regex pattern of it equals an entry
\* of the allow-list, whatever the validation options
C18_OnlyAllowedRegexes ==
  (/\ pureCall.fn = "validateConfig"
   /\ ~pureCall.regexAllowed
   /\ pureRet.kind = "value")
    => AllPatternsAllowed(pureRet.value.regexes)

\* C18 amended: the same when skipErrorsFromAddonsOrProxies is not set
C18_OnlyAllowedRegexesUnlessSkipped ==
  (/\ pureCall.fn = "validateConfig"
   /\ ~pureCall.regexAllowed
   /\ ~pureCall.skipErrorsFromAddonsOrProxies
   /\ pureRet.kind = "value")
    => AllPatternsAllowed(pureRet.value.regexes)

\* a configuration with two allowed patterns is returned to a user without
\* free regex, errors not skipped
C18_Witness ==
  /\ pureCall.fn = "validateConfig"
  /\ ~pureCall.regexAllowed
  /\ ~pureCall.skipErrorsFromAddonsOrProxies
  /\ Len(AllRegexes(pureCall.regexes)) = 2
  /\ pureRet.kind = "value"


(* ------------------------------ claim C19 ----------------------------- *)
\* waiter c has subscribed, has re-read the key and found it, and waits for
\* a publication that the key's owner sent before the subscription
WaitsForSentPublication(c) ==
  /\ backend = "redis"
  /\ pc[c] = "waiting"
  /\ inbox[c] = <<>>
  /\ RedisGet # 0
  /\ pc[RedisGet] \in {"relGet", "relDel"}

\* C19: whenever the producer completes, every Redis waiter either receives
\* the published result or error or aborts at its re-read of the key; no
\* waiter is left waiting until timeout for a publication that was sent
\* before its subscription completed
C19_NoWaiterLeftWaiting == \A c \in Callers : ~WaitsForSentPublication(c)

\* C19, the part that holds: a waiter that finds the key gone at its re-read
\* aborts at once, and one that is subscribed when the producer publishes
\* gets the message
C19_AbortOrReceive ==
  [][\A c \in Callers :
       /\ (pc[c] = "recheck" /\ pc'[c] # "recheck" /\ inbox[c] = <<>>
             /\ RedisGet = 0)
            => (pc'[c] = "done" /\ outcome'[c].kind = "error")
       /\ (c \in subs /\ \E p \in Callers :
                           pc[p] = "running" /\ pc'[p] = "relGet")
            => inbox'[c] # <<>>]_vars

(* ------------------------------ claim C20 ----------------------------- *)
\* the Redis key is deleted only by the caller whose token it carries
C20_RedisSingleWriter ==
  [][\A c \in Callers :
       (/\ backend = "redis"
        /\ pc[c] = "relDel" /\ pc'[c] = "done"
        /\ redisKey # NoLock)
         => redisKey.owner = c]_vars

\* the SQL row gets a result from, or is released by, the caller whose token
\* it carries only; an acquisition attempt removes expired rows only
C20_SqlSingleWriter ==
  [][\A c \in Callers :
       (backend = "sql" /\ sqlRow # NoLock /\ sqlRow' # sqlRow) =>
         /\ (pc[c] = "running" /\ pc'[c] = "done") => sqlRow.owner = c
         /\ (releaseAt[c] # NoTimer /\ releaseAt'[c] = NoTimer)
              => sqlRow.owner = c
         /\ (pc[c] = "idle" /\ pc'[c] # "idle") => sqlRow.exp < now]_vars

\* C20: a caller stores a result into, or removes, the lock record of a key
\* only while the record carries its own token; a producer whose lock
\* expired and was acquired by another caller never deletes the new owner's
\* lock and never overwrites the new owner's result
C20_SingleWriter == C20_RedisSingleWriter /\ C20_SqlSingleWriter

(* ------------------------------- C21 ---------------------------------- *)
\* a getStreams call has just passed its metadataStore().set
StoreWritten == msCall = NoStoreCall /\ msCall' # NoStoreCall

\* C21 as stated: the store is write-once per metadataId: a getStreams call
\* that computes the metadataId of an entry still in the store leaves the
\* entry as it is, value and expiry
C21_WriteOnce ==
  [][(StoreWritten
        /\ CacheGetAt(msStore, msCall'.metadataId, msNow) # Undefined)
       => msStore'[msCall'.metadataId] = msStore[msCall'.metadataId]]_vars

\* C21 amended: every getStreams call writes the entry of its metadataId
\* again: the value is the title metadata of the call, the same as the one
\* an entry still in the store holds, the expiry moves to the time of the
\* call plus the validity, no other entry changes; and a read that finds an
\* entry returns the title metadata written under that metadataId
C21_RewrittenSameValue ==
  [][/\ StoreWritten =>
          /\ msStore'[msCall'.metadataId] =
               [value |-> DebridTitleMetadata(msCall'.id),
                expiresAt |-> msNow + Validity]
          /\ CacheGetAt(msStore, msCall'.metadataId, msNow) # Undefined
               => msStore'[msCall'.metadataId].value =
                    msStore[msCall'.metadataId].value
          /\ \A m \in MetadataIds \ {msCall'.metadataId} :
               msStore'[m] = msStore[m]
     /\ (msRead' # msRead /\ msRead'.error = "") =>
          \E id \in SupportedIds :
            /\ MetadataIdOf(id) = msRead'.metadataId
            /\ msRead'.metadata = DebridTitleMetadata(id)]_vars

\* C21 witness: a later getStreams call has written an entry that was still
\* in the store, and the entry now expires later than it did
C21_Witness ==
  /\ msCall # NoStoreCall
  /\ msCall.before # NoEntry
  /\ msCall.writtenAt < msCall.before.expiresAt
  /\ msStore[msCall.metadataId].expiresAt > msCall.before.expiresAt
  /\ msStore[msCall.metadataId].value = msCall.before.value

(* ------------------------------- C27 ---------------------------------- *)
\* C27 as stated: a playback request made after the response and less than
\* the validity after it never fails with 'Metadata not found'
C27_FoundWithinValidityOfResponse ==
  (msRead # NoRead /\ msRead.sinceResponse < Validity)
    => msRead.error # "Metadata not found"

\* C27 amended: the entry of every playback url of a response was written
\* before getStreams returned, and a playback request made after the
\* response and less than the validity after that write never fails with
\* 'Metadata not found'
C27_FoundWithinValidityOfWrite ==
  /\ \A link \in msLinks : link.writtenAt <= link.at
  /\ (msRead # NoRead /\ msRead.sinceWrite < Validity)
       => (msRead.error = "" /\ msRead.metadata # Undefined)

\* C27 witness: a playback request made in the last tick of the validity
\* counted from the write, after a response that came a tick after the
\* write, has found the metadata
C27_Witness ==
  /\ msRead # NoRead
  /\ msRead.sinceWrite = Validity - 1
  /\ msRead.sinceResponse < msRead.sinceWrite
  /\ msRead.error = ""

(* ------------------------------- C22 ---------------------------------- *)
\* every id of the list is the instanceId of a preset of the configuration
ListRefersToPresets(addons, config) ==
  \A i \in DOMAIN addons :
    /\ config.hasPresets
    /\ \E p \in DOMAIN config.presets : config.presets[p].instanceId = addons[i]

\* every reference of the configuration is to one of its presets
RefersToPresets(config) ==
  /\ Has(config.proxy, "proxiedAddons") =>
       ListRefersToPresets(config.proxy.proxiedAddons, config)
  /\ Has(config.yearMatching, "addons") =>
       ListRefersToPresets(config.yearMatching.addons, config)
  /\ Has(config.titleMatching, "addons") =>
       ListRefersToPresets(config.titleMatching.addons, config)
  /\ Has(config.seasonEpisodeMatching, "addons") =>
       ListRefersToPresets(config.seasonEpisodeMatching.addons, config)
  /\ Has(config.groups, "groupings") =>
       \A g \in DOMAIN config.groups.groupings :
         ListRefersToPresets(config.groups.groupings[g].addons, config)

\* the pre-pass left a group without addons
GroupLeftEmpty(config) ==
  /\ Has(config.groups, "groupings")
  /\ \E g \in DOMAIN config.groups.groupings :
       config.groups.groupings[g].addons = <<>>

\* C22: after the pre-pass of a configuration, and in
\* every configuration validateConfig returns, each addon id in
\* proxy.proxiedAddons, in the addons of the three matching options and in
\* the addons of every group is the instanceId of a preset of the
\* configuration; a group left with no addons makes validateConfig throw
C22_ReferencesArePresets ==
  (pureCall # NoCall /\ pureCall.fn = "validateConfig"
     /\ "prepass" \in DOMAIN pureRet) =>
    /\ RefersToPresets(pureRet.prepass)
    /\ pureRet.result.kind = "value" => RefersToPresets(pureRet.result.value)
    /\ GroupLeftEmpty(pureRet.prepass) => pureRet.result.kind = "error"

\* C22 witness: a configuration is returned from which the pre-pass removed
\* a reference of the proxy and a reference of a group that kept another
C22_Witness ==
  /\ pureCall # NoCall
  /\ "prepass" \in DOMAIN pureRet
  /\ pureRet.result.kind = "value"
  /\ Has(pureCall.proxy, "proxiedAddons")
  /\ pureCall.proxy.proxiedAddons = <<<<"b">>, <<"a">>>>
  /\ pureRet.result.value.proxy.proxiedAddons = <<<<"a">>>>
  /\ Has(pureRet.result.value.groups, "groupings")
  /\ \E g \in DOMAIN pureRet.result.value.groups.groupings :
       /\ pureRet.result.value.groups.groupings[g].addons = <<<<"a">>>>
       /\ ApplyMigrations(pureCall).groups.groupings[g].addons # <<<<"a">>>>

\* C22 witness: validateConfig threw for a group that the pre-pass left
\* without addons
C22_WitnessEmptied ==
  /\ pureCall # NoCall
  /\ "prepass" \in DOMAIN pureRet
  /\ GroupLeftEmpty(pureRet.prepass)
  /\ ~GroupLeftEmpty(ApplyMigrations(pureCall))
  /\ pureRet.result = Thrown("Every group must have at least one addon")

(* ------------------------------- C23 ---------------------------------- *)
\* the pattern of the rule matches the hostname: '*' every host, '*.suffix'
\* the hosts that end in '.suffix', any other pattern the identical host
PatternMatches(pattern, hostname) ==
  IF pattern = <<"*">> THEN TRUE
  ELSE IF Len(pattern) > 1 /\ pattern[1] = "*" /\ pattern[2] = "."
    THEN EndsWith(hostname, Tail(pattern))
  ELSE pattern = hostname

\* the well-formed rules whose pattern matches the hostname
MatchingRules(rules, hostname) ==
  {i \in DOMAIN rules :
     ~InvalidRule(rules[i]) /\ PatternMatches(rules[i].hostname, hostname)}

\* the last of them
LastMatchingRule(rules, hostname) ==
  rules[CHOOSE i \in MatchingRules(rules, hostname) :
          \A j \in MatchingRules(rules, hostname) : j <= i]

\* C23: where proxies are configured and the host is not localhost,
\* shouldProxy returns what the last well-formed rule that matches the
\* hostname gives, provided the proxy it names exists, and proxy 0 if no
\* rule matches
C23_LastMatchingRule ==
  (pureCall # NoCall /\ pureCall.fn = "shouldProxy"
     /\ pureCall.addonProxy > 0 /\ pureCall.hostname # <<"localhost">>) =>
    IF MatchingRules(pureCall.rules, pureCall.hostname) = {}
      THEN pureRet.value = [useProxy |-> TRUE, proxyIndex |-> 0]
      ELSE LET rule == LastMatchingRule(pureCall.rules, pureCall.hostname)
           IN (rule.value = "false"
                 \/ ~NoSuchProxy(pureCall.addonProxy, RuleDecision(rule).proxyIndex))
                => pureRet.value = RuleDecision(rule)

\* C23, the part that holds: the same, for the calls with no rule at all or
\* with a rule that matches
C23_LastMatchingRuleIfAny ==
  (pureCall # NoCall /\ pureCall.fn = "shouldProxy"
     /\ pureCall.addonProxy > 0 /\ pureCall.hostname # <<"localhost">>) =>
    IF pureCall.rules = <<>>
      THEN pureRet.value = [useProxy |-> TRUE, proxyIndex |-> 0]
    ELSE IF MatchingRules(pureCall.rules, pureCall.hostname) = {}
      THEN pureRet.value = [useProxy |-> FALSE, proxyIndex |-> -1]
      ELSE LET rule == LastMatchingRule(pureCall.rules, pureCall.hostname)
           IN (rule.value = "false"
                 \/ ~NoSuchProxy(pureCall.addonProxy, RuleDecision(rule).proxyIndex))
                => pureRet.value = RuleDecision(rule)

(* ------------------------------- C24 ---------------------------------- *)
\* C24: in a download with a non-empty file list every video file has a
\* strictly higher score than every file that is not a video, and the file
\* picked is a video whenever the list has one
C24_VideoOutscoresNonVideo ==
  Selected =>
    /\ \A i, j \in 0..(Len(pureCall.files) - 1) :
         (IsVideoFile(pureCall.files[i + 1]) /\ ~IsVideoFile(pureCall.files[j + 1]))
           => FileScore(pureCall, i) > FileScore(pureCall, j)
    /\ (\E i \in DOMAIN pureCall.files : IsVideoFile(pureCall.files[i]))
         => IsVideoFile(pureRet.bestMatch.file)

(* ------------------------------- C25 ---------------------------------- *)
\* a call of validateConfig with its lists and the maxima is over
LimitsChecked == pureCall # NoCall /\ "limits" \in DOMAIN pureRet

\* one of the four keyword lists, or of the four stream expression lists,
\* is longer than its non-zero maximum
ListOverMaximum ==
  \/ /\ pureCall.maxKeywordFilters # 0
     /\ \E name \in KeywordLists :
          /\ pureCall.keywords[name] # Undef
          /\ pureCall.keywords[name].len > pureCall.maxKeywordFilters
  \/ /\ pureCall.maxStreamExpressionFilters # 0
     /\ \E name \in ExpressionLists :
          /\ pureCall.expressions[name] # Undef
          /\ pureCall.expressions[name].len > pureCall.maxStreamExpressionFilters

\* the configuration has more groups than the non-zero MAX_GROUPS
GroupsOverMaximum ==
  /\ pureCall.maxGroups # 0
  /\ pureCall.groups # Undef
  /\ pureCall.groups.groupings # Undef
  /\ pureCall.groups.groupings.len > pureCall.maxGroups

\* C25: validateConfig rejects every configuration that has more groups
\* than a non-zero MAX_GROUPS, a keyword list longer than a non-zero
\* MAX_KEYWORD_FILTERS or a stream expression list longer than a non-zero
\* MAX_STREAM_EXPRESSION_FILTERS
C25_RejectsOverMaximum ==
  (LimitsChecked /\ (GroupsOverMaximum \/ ListOverMaximum))
    => pureRet.result.kind = "error"

\* C25, the part that holds: the same for the keyword lists and the stream
\* expression lists
C25_RejectsListOverMaximum ==
  (LimitsChecked /\ ListOverMaximum)
    => (pureRet.result.kind = "error" /\ pureRet.result.message # "other")

(* ------------------------------- C26 ---------------------------------- *)
\* C26: under every interleaving of makeRequest calls for one key within a
\* window the stored count is the number of calls that passed the guard,
\* so a call without ignoreRecursion that passes the guard is at most the
\* (RECURSION_THRESHOLD_LIMIT + 1)-th call to pass it in the window
C26_NoIncrementLost ==
  /\ [](\A k \in RequestKeys : urlCount[k] > 0 => urlCount[k] = rqPassed[k])
  /\ [][\A s \in RequestSlots :
          (rq[s].pc = "guard" /\ rq'[s].pc = "fetch" /\ ~rq[s].ignoreRecursion)
            => rqPassed'[rq[s].key] <= RecursionThresholdLimit + 1]_vars

\* C26, the part that holds: a call stopped by the guard leaves every count
\* as it is, and a call that passes changes the count of its own key only
C26_OwnKeyOnly ==
  [][\A s \in RequestSlots :
       (rq[s].pc = "guard" /\ rq'[s].pc # "guard") =>
         /\ rq'[s].result = "PossibleRecursiveRequestError"
              => urlCount' = urlCount
         /\ \A k \in RequestKeys \ {rq[s].key} : urlCount'[k] = urlCount[k]]_vars

(* ------------------------------- C28 ---------------------------------- *)
\* a call of validateConfig whose configuration lists a disabled service
\* and is valid in every other respect
ListsDisabledService ==
  /\ pureCall.fn = "validateConfig"
  /\ "services" \in DOMAIN pureCall
  /\ \E i \in DOMAIN pureCall.services :
       pureCall.services[i].id
         \in ServiceCallOf(pureCall.services[i], FALSE).disabledServices
  /\ ~SchemaError(pureCall.presets)
  /\ PresetsError(pureCall, {}, 1) = "none"
  /\ pureCall.othersValid
  /\ ValidateRegexes(pureCall) = "none"

\* C28: a configuration that lists a service of
\* FeatureControl.disabledServices does not fail because of that service:
\* validateConfig returns it, with that service not enabled
C28_DisabledServiceTurnedOff ==
  ListsDisabledService =>
    /\ pureRet.kind = "value"
    /\ \A i \in DOMAIN pureRet.value.services :
         pureRet.value.services[i].id
             \in ServiceCallOf(pureRet.value.services[i], FALSE).disabledServices
           => ~pureRet.value.services[i].enabled

(* ------------------------------- C29 --------------------------------- *)
\* what start() awaits before it calls app.listen, in order
AwaitedBeforeListen ==
  IF srvEnv.redisUri THEN <<"database", "redis", "ptt">>
                     ELSE <<"database", "ptt">>

ListenCalled == srvPc \in {"listen", "listening"}

InitialisationFailed ==
  \E i \in 1..Len(srvDone) :
    srvDone[i] \in {"database failed", "redis failed", "ptt failed"}

\* C29: app.listen is called only once database initialisation, the Redis
\* connection test (if REDIS_URI is set), PTT initialisation and the
\* Prowlarr indexer fetch have settled, in that order; a failure of the
\* database, Redis or PTT initialisation exits the process with code 1, and
\* it never listens; a failure of the anime database or of the Prowlarr
\* fetch leaves start() on its way to app.listen
C29_ListenAfterInitialisation ==
  /\ [](ListenCalled =>
          /\ Len(srvDone) = Len(AwaitedBeforeListen) + 1
          /\ SubSeq(srvDone, 1, Len(AwaitedBeforeListen)) = AwaitedBeforeListen
          /\ srvDone[Len(srvDone)] \in {"prowlarr", "prowlarr failed"})
  /\ [](InitialisationFailed =>
          /\ srvPc = "exited"
          /\ srvExit = <<1>>)
  /\ [][/\ srvPc = "exited" => srvPc' = "exited"
        /\ (srvPc = "prowlarr" /\ srvPc' # "prowlarr") => srvPc' = "listen"
        /\ (srvAnime = "running" /\ srvAnime' = "failed")
             => UNCHANGED <<srvPc, srvExit>>]_vars

\* C29 witness: the server listens with Redis tested, although the anime
\* database and the Prowlarr fetch both failed
C29_Witness ==
  /\ srvPc = "listening"
  /\ srvEnv.redisUri
  /\ srvDone = <<"database", "redis", "ptt", "prowlarr failed">>
  /\ srvAnime = "failed"

\* C29: a failed PTT initialisation has exited the process before any listen
C29_WitnessFailed ==
  /\ srvPc = "exited"
  /\ srvExit = <<1>>
  /\ srvDone = <<"database", "ptt failed">>

(* ------------------------------- C30 --------------------------------- *)
PruneEnabled == srvEnv.pruneMaxDays >= 0

\* a pruneUsers attempt has just settled
AttemptSettles == prPc = "pruning" /\ prPc' # "pruning"

\* C30: with PRUNE_MAX_DAYS >= 0, every pruneUsers attempt, returned or
\* thrown, leaves exactly one timer of PRUNE_INTERVAL seconds pending, there
\* is never more than one, and as long as the process has not exited each
\* attempt settles and each timer leads to the next attempt; with
\* PRUNE_MAX_DAYS < 0 pruneUsers is never called and no timer is set
C30_PruningRecurs ==
  /\ [](Len(prTimers) <= 1)
  /\ [](~PruneEnabled => (prPc = "off" /\ prTimers = <<>> /\ prLast = "none"))
  /\ [][AttemptSettles =>
          (prPc' = "waiting" /\ prTimers' = <<PruneInterval * 1000>>)]_vars
  /\ [][(prTimers # <<>> /\ prTimers' = <<>>) => prPc' = "pruning"]_vars
  /\ ((prPc = "pruning") ~> (prPc = "waiting" \/ srvPc = "exited"))
  /\ ((prPc = "waiting") ~> (prPc = "pruning" \/ srvPc = "exited"))
  /\ ((srvPc = "listening" /\ PruneEnabled)
        ~> (prPc = "pruning" /\ prLast # "none"))

\* C30 witness: the attempt after one that threw is under way, the server
\* listening and no timer pending
C30_Witness ==
  /\ PruneEnabled
  /\ srvPc = "listening"
  /\ prLast = "threw"
  /\ prPc = "pruning"
  /\ prTimers = <<>>

\* C30: with PRUNE_MAX_DAYS < 0 the server listens and nothing was pruned
C30_WitnessDisabled ==
  /\ ~PruneEnabled
  /\ srvPc = "listening"
  /\ prPc = "off"
  /\ prLast = "none"

====
